---- MODULE Spec2Model ----
(***************************************************************************)
(* Doc Creator backend: the document store and the HTTP handlers of the    *)
(* server (src/README.md, lines 285-1092 hold the server's JavaScript),    *)
(* the optional MongoDB connection and the in-memory fallback.             *)
(*                                                                         *)
(* A handler is split at its awaits: every action is one run-to-completion *)
(* segment of the event loop.  Strings whose characters matter (titles,    *)
(* descriptions, search terms, content) are sequences of one-character     *)
(* strings; other strings are tokens.                                      *)
(***************************************************************************)
EXTENDS Integers, Sequences, FiniteSets, TLC

VARIABLES
    MONGODB_URI,        \* process.env.MONGODB_URI is set (fixed for the process)
    connect,            \* state of the mongoose.connect promise
    isMongoConnected,   \* let isMongoConnected
    Document,           \* let Document (TRUE once the model is defined, FALSE for null)
    inMemoryDocuments,  \* let inMemoryDocuments
    documentCounter,    \* let documentCounter
    collection,         \* the documents collection of the database, in insertion order
    objectIdCounter,    \* number of ObjectIds the database driver has generated
    now,                \* Date.now(), in milliseconds
    pending,            \* requests suspended at an await
    issued,             \* number of requests received so far
    upstreamRequest,    \* the request sent upstream by the step just taken
    aiOutcome,          \* how the completion call settled in the step just taken
    uploads,            \* the files of the uploads directory
    backendsUsed,       \* the backends the handlers have read or written so far
    response            \* the HTTP response sent by the step just taken

vars == << MONGODB_URI, connect, isMongoConnected, Document, inMemoryDocuments,
           documentCounter, collection, objectIdCounter, now, pending, issued,
           upstreamRequest, aiOutcome, uploads, backendsUsed, response >>

-----------------------------------------------------------------------------
(* Bounds of the model *)

MaxRequests == 3
MaxPending == 2
MaxClock == 1
MaxPage == 3

-----------------------------------------------------------------------------
(* Optional values: undefined is None *)

None == [given |-> FALSE]
Some(v) == [given |-> TRUE, v |-> v]
Opt(S) == {None} \cup {Some(v) : v \in S}

(* Character strings *)

UpperCase == << "A", "B", "C", "D", "E", "F", "G", "H", "I", "J", "K", "L", "M",
                "N", "O", "P", "Q", "R", "S", "T", "U", "V", "W", "X", "Y", "Z" >>
LowerCase == << "a", "b", "c", "d", "e", "f", "g", "h", "i", "j", "k", "l", "m",
                "n", "o", "p", "q", "r", "s", "t", "u", "v", "w", "x", "y", "z" >>

toLowerCaseChar(c) ==
    IF \E i \in 1..Len(UpperCase) : UpperCase[i] = c
    THEN LowerCase[CHOOSE i \in 1..Len(UpperCase) : UpperCase[i] = c]
    ELSE c

toLowerCase(s) == [i \in 1..Len(s) |-> toLowerCaseChar(s[i])]

\* String.prototype.includes: sub occurs in s as a contiguous substring
includes(s, sub) ==
    \E k \in 0..(Len(s) - Len(sub)) :
        \A i \in 1..Len(sub) : s[k + i] = sub[i]

\* String.prototype.startsWith
startsWith(s, prefix) ==
    Len(s) >= Len(prefix) /\ SubSeq(s, 1, Len(prefix)) = prefix

\* a JavaScript string is truthy iff it is non-empty
Truthy(o) == o.given /\ o.v # <<>>

-----------------------------------------------------------------------------
(* Request bodies *)

RepoNames == { << "A", "b" >> }
Urls == { "https://github.com/octocat/Hello-World" }
Contents == { <<>>, << "#", " ", "T" >> }

Metadatas ==
    { [repoName |-> None, url |-> None] }
    \cup [repoName : {Some(n) : n \in RepoNames}, url : {Some(u) : u \in Urls}]
RepoDatas == Opt(Metadatas)     \* repoData.metadata, or no metadata at all

\* options of POST /api/ai/generate: model is a token, temperature is in tenths
OptionsInputs ==
    { [model |-> None, temperature |-> None],
      [model |-> Some("google/gemini-pro"), temperature |-> Some(7)],
      [model |-> Some("not-a-real-model"), temperature |-> Some(0)],
      [model |-> Some(""), temperature |-> None] }

(* How the completion call can settle.  vendor is error.response.data.error.code
   (0 when the failure carries no vendor payload), code is error.code. *)
Failures ==
    { [vendor |-> 402, code |-> ""], [vendor |-> 408, code |-> ""],
      [vendor |-> 400, code |-> ""], [vendor |-> 500, code |-> ""],
      [vendor |-> 0, code |-> "ECONNABORTED"], [vendor |-> 0, code |-> "ECONNRESET"],
      [vendor |-> 0, code |-> "TypeError"] }
Outcomes ==
    { [ok |-> TRUE, content |-> c, error |-> [vendor |-> 0, code |-> ""]] : c \in Contents }
    \cup { [ok |-> FALSE, content |-> <<>>, error |-> f] : f \in Failures }
NoOutcome == [ok |-> FALSE, content |-> <<>>, error |-> [vendor |-> 0, code |-> "none"]]

-----------------------------------------------------------------------------
(* OpenRouterService of the server *)

reliableModels ==
    { "openai/gpt-3.5-turbo", "google/gemini-pro", "anthropic/claude-3-haiku",
      "meta-llama/llama-3.1-8b-instruct" }

defaultModel == "openai/gpt-3.5-turbo"

\* a model is used as requested only if it is given, truthy and reliable
selectedModel(options) ==
    IF options.model.given /\ options.model.v # "" /\ options.model.v \in reliableModels
    THEN options.model.v
    ELSE defaultModel

\* options.temperature || 0.3, in tenths
DefaultTemperature == 3
temperatureSent(options) ==
    IF options.temperature.given /\ options.temperature.v # 0
    THEN options.temperature.v
    ELSE DefaultTemperature

completionRequest(options) ==
    [sent |-> TRUE, model |-> selectedModel(options),
     temperature |-> temperatureSent(options)]
NoUpstreamRequest == [sent |-> FALSE, model |-> "", temperature |-> 0]

\* the catch block of generateDocumentation: the message of the error re-thrown
generationError(error) ==
    IF error.vendor = 402
    THEN "Free tier limit reached. Try with a smaller repository or wait for credits to refresh."
    ELSE IF error.vendor = 408 \/ error.code = "ECONNABORTED"
    THEN "Request timeout. Please try again in a moment."
    ELSE IF error.vendor = 400
    THEN "Invalid request. Please check your input and try again."
    ELSE "Failed to generate documentation with AI. Please try again."

-----------------------------------------------------------------------------
(* Documents *)

MemId(n) == [kind |-> "mem", n |-> n]        \* `mem_${n}`
ObjectId(n) == [kind |-> "ObjectId", n |-> n] \* the n-th ObjectId of the driver
OtherId == [kind |-> "string", n |-> 0]       \* any other string, e.g. "nope"

Repository == << "R", "e", "p", "o", "s", "i", "t", "o", "r", "y" >>
repository == << "r", "e", "p", "o", "s", "i", "t", "o", "r", "y" >>
DocumentationSuffix ==
    << " ", "D", "o", "c", "u", "m", "e", "n", "t", "a", "t", "i", "o", "n" >>
DescriptionPrefix ==
    << "A", "I", "-", "g", "e", "n", "e", "r", "a", "t", "e", "d", " ",
       "d", "o", "c", "u", "m", "e", "n", "t", "a", "t", "i", "o", "n", " ",
       "f", "o", "r", " " >>

\* the documentData object built by POST /api/ai/generate
documentData(metadata, content, time) ==
    [title |-> (IF Truthy(metadata.repoName) THEN metadata.repoName.v ELSE Repository)
                 \o DocumentationSuffix,
     description |-> DescriptionPrefix
                 \o (IF Truthy(metadata.repoName) THEN metadata.repoName.v ELSE repository),
     githubUrl |-> metadata.url,
     content |-> content,
     metadata |-> metadata,
     status |-> "completed",
     exports |-> <<>>,
     createdAt |-> time]

withId(data, id) == [f \in {"_id"} \cup DOMAIN data |-> IF f = "_id" THEN id ELSE data[f]]

\* validation of the schema the server defines: title and content are required,
\* and a required string is rejected when it is empty
schemaValid(data) == data.title # <<>> /\ data.content # <<>>

-----------------------------------------------------------------------------
(* Responses *)

NoResponse == [kind |-> "none", status |-> 0]

errorResponse(kind, message) ==
    [kind |-> kind, status |-> 500, success |-> "false", error |-> message]
\* res.status(404).json({ error: 'Document not found' }): the body has no success field
notFoundResponse(kind, id) ==
    [kind |-> kind, status |-> 404, success |-> "absent", error |-> "Document not found",
     id |-> id]
\* the catch block of a handler whose query rejected with a CastError
castErrorResponse(kind, id) ==
    [kind |-> kind, status |-> 500, success |-> "false",
     error |-> "Cast to ObjectId failed", id |-> id]

\* isMongoConnected && Document
useMongo == isMongoConnected /\ Document

-----------------------------------------------------------------------------
(* Startup *)

Init ==
    /\ MONGODB_URI \in BOOLEAN
    /\ connect = IF MONGODB_URI THEN "pending" ELSE "none"
    /\ isMongoConnected = FALSE
    /\ Document = FALSE
    /\ inMemoryDocuments = <<>>
    /\ documentCounter = 1
    /\ collection = <<>>
    /\ objectIdCounter = 0
    /\ now = 0
    /\ pending = {}
    /\ issued = 0
    /\ upstreamRequest = NoUpstreamRequest
    /\ aiOutcome = NoOutcome
    /\ uploads = {}
    /\ backendsUsed = {}
    /\ response = NoResponse

\* what a step that sends nothing and settles nothing leaves behind
Quiet ==
    /\ upstreamRequest' = NoUpstreamRequest
    /\ aiOutcome' = NoOutcome
    /\ response' = NoResponse

\* mongoose.connect(...).then: the connection succeeds
ConnectResolved ==
    /\ connect = "pending"
    /\ connect' = "connected"
    /\ isMongoConnected' = TRUE
    /\ Document' = TRUE
    /\ Quiet
    /\ UNCHANGED << MONGODB_URI, inMemoryDocuments, documentCounter, collection,
                    objectIdCounter, now, pending, issued, uploads, backendsUsed >>

\* mongoose.connect(...).catch: the connection fails
ConnectRejected ==
    /\ connect = "pending"
    /\ connect' = "failed"
    /\ isMongoConnected' = FALSE
    /\ Quiet
    /\ UNCHANGED << MONGODB_URI, Document, inMemoryDocuments, documentCounter,
                    collection, objectIdCounter, now, pending, issued, uploads, backendsUsed >>

\* the clock advances
Tick ==
    /\ now < MaxClock
    /\ now' = now + 1
    /\ Quiet
    /\ UNCHANGED << MONGODB_URI, connect, isMongoConnected, Document,
                    inMemoryDocuments, documentCounter, collection, objectIdCounter,
                    pending, issued, uploads, backendsUsed >>

-----------------------------------------------------------------------------
(* POST /api/ai/generate *)

\* a request is accepted while the bounds allow it
CanAccept == issued < MaxRequests /\ Cardinality(pending) < MaxPending

\* The handler up to the await of the completion call.  Without metadata the
\* prompt builder throws inside generateDocumentation, whose catch block turns
\* the TypeError into the generic failure: nothing is sent upstream.
GenerateStart(repoData, options) ==
    /\ CanAccept
    /\ issued' = issued + 1
    /\ aiOutcome' = NoOutcome
    /\ IF repoData.given
       THEN /\ pending' = pending \cup
                  { [rid |-> issued + 1, kind |-> "generate", stage |-> "completion",
                     metadata |-> repoData.v] }
            /\ upstreamRequest' = completionRequest(options)
            /\ response' = NoResponse
       ELSE /\ pending' = pending
            /\ upstreamRequest' = NoUpstreamRequest
            /\ response' = errorResponse("generate",
                                generationError([vendor |-> 0, code |-> "TypeError"]))
    /\ UNCHANGED << MONGODB_URI, connect, isMongoConnected, Document,
                    inMemoryDocuments, documentCounter, collection, objectIdCounter,
                    now, uploads, backendsUsed >>

\* mutation: the handler carries on after a failed completion call
completionReturnedAlways(outcome) == TRUE

\* await generateDocumentation(...) returns only when the completion call
\* succeeded; otherwise it throws and the handler's catch block answers
completionReturned(outcome) == outcome.ok

\* mutation: the counter is read but not incremented
postIncrementForgotten(counter) == counter

\* documentCounter++
postIncrement(counter) == counter + 1

\* mutation: the failed request is left waiting for another attempt
retried(requests, r) == requests

\* the catch block has answered: the request is over, nothing is tried again
finished(requests, r) == requests \ {r}

\* The completion call settles and the handler runs to its next await or to
\* its response.
GenerateSettled(r, outcome) ==
    /\ r \in pending /\ r.kind = "generate" /\ r.stage = "completion"
    /\ aiOutcome' = outcome
    /\ upstreamRequest' = NoUpstreamRequest
    /\ IF ~completionReturned(outcome)
       THEN /\ pending' = finished(pending, r)
            /\ response' = errorResponse("generate", generationError(outcome.error))
            /\ UNCHANGED << inMemoryDocuments, documentCounter, backendsUsed >>
       ELSE LET data == documentData(r.metadata, outcome.content, now) IN
            IF useMongo
            THEN /\ pending' = (pending \ {r}) \cup
                       { [rid |-> r.rid, kind |-> "generate", stage |-> "save",
                          data |-> data] }
                 /\ response' = NoResponse
                 /\ backendsUsed' = backendsUsed \cup {"MongoDB"}
                 /\ UNCHANGED << inMemoryDocuments, documentCounter >>
            ELSE LET savedDocument == withId(data, MemId(documentCounter)) IN
                 /\ documentCounter' = postIncrement(documentCounter)
                 /\ inMemoryDocuments' = Append(inMemoryDocuments, savedDocument)
                 /\ pending' = pending \ {r}
                 /\ response' = [kind |-> "generate", status |-> 200,
                                 success |-> "true", document |-> savedDocument]
                 /\ backendsUsed' = backendsUsed \cup {"In-Memory"}
    /\ UNCHANGED << MONGODB_URI, connect, isMongoConnected, Document, collection,
                    objectIdCounter, now, issued, uploads >>

\* document.save() settles: the schema is validated, then the document is inserted
GenerateSaved(r) ==
    /\ r \in pending /\ r.kind = "generate" /\ r.stage = "save"
    /\ pending' = pending \ {r}
    /\ IF schemaValid(r.data)
       THEN LET savedDocument == withId(r.data, ObjectId(objectIdCounter + 1)) IN
            /\ objectIdCounter' = objectIdCounter + 1
            /\ collection' = Append(collection, savedDocument)
            /\ response' = [kind |-> "generate", status |-> 200,
                            success |-> "true", document |-> savedDocument]
       ELSE /\ response' = errorResponse("generate", "Document validation failed")
            /\ UNCHANGED << collection, objectIdCounter >>
    /\ upstreamRequest' = NoUpstreamRequest
    /\ aiOutcome' = NoOutcome
    /\ UNCHANGED << MONGODB_URI, connect, isMongoConnected, Document,
                    inMemoryDocuments, documentCounter, now, issued, uploads,
                    backendsUsed >>

-----------------------------------------------------------------------------
(* Lookups *)

\* Array.prototype.find(doc => doc._id === id): the first such document, or None
findInMemory(docs, id) ==
    IF \E i \in 1..Len(docs) : docs[i]._id = id
    THEN Some(docs[CHOOSE i \in 1..Len(docs) :
                     docs[i]._id = id /\ \A j \in 1..(i - 1) : docs[j]._id # id])
    ELSE None

\* Model.findById casts the id to an ObjectId first: a string that is no
\* ObjectId makes the query reject with a CastError
castFails(id) == id.kind # "ObjectId"

findById(docs, id) ==
    IF \E i \in 1..Len(docs) : docs[i]._id = id
    THEN Some(docs[CHOOSE i \in 1..Len(docs) : docs[i]._id = id])
    ELSE None

IdInputs == { MemId(1), MemId(2), ObjectId(0), ObjectId(1), OtherId }

-----------------------------------------------------------------------------
(* POST /api/export/:documentId *)

FormatInputs == { None, Some("pdf"), Some("exe") }

\* const { format = 'markdown' } = req.body
formatOf(f) == IF f.given THEN f.v ELSE "markdown"

\* `doc-${documentId}-${Date.now()}` with its directory and extension
exportData(document, documentId, format, time) ==
    [format |-> format,
     url |-> [dir |-> "/uploads/", id |-> documentId, time |-> time, ext |-> format],
     filePath |-> [dir |-> "./uploads/", id |-> documentId, time |-> time, ext |-> format],
     size |-> Len(document.content),
     createdAt |-> time]

\* mutation: the new entry replaces the list instead of being appended
pushExportOverwriting(document, entry) == [document EXCEPT !.exports = << entry >>]

\* document.exports.push(exportData); a document without exports has the empty list
pushExport(document, entry) == [document EXCEPT !.exports = Append(@, entry)]

replaceAt(docs, id, document) ==
    [i \in 1..Len(docs) |-> IF docs[i]._id = id THEN document ELSE docs[i]]

exportResponse(entry, document) ==
    [kind |-> "export", status |-> 200, success |-> "true", id |-> document._id,
     export |-> entry, document |-> document]

\* The handler up to its first await: with the in-memory list it runs to the end.
ExportStart(documentId, f) ==
    /\ CanAccept
    /\ issued' = issued + 1
    /\ upstreamRequest' = NoUpstreamRequest
    /\ aiOutcome' = NoOutcome
    /\ IF useMongo
       THEN /\ pending' = pending \cup
                  { [rid |-> issued + 1, kind |-> "export", stage |-> "findById",
                     id |-> documentId, format |-> formatOf(f)] }
            /\ backendsUsed' = backendsUsed \cup {"MongoDB"}
            /\ response' = NoResponse
            /\ UNCHANGED inMemoryDocuments
       ELSE LET found == findInMemory(inMemoryDocuments, documentId) IN
            /\ pending' = pending
            /\ backendsUsed' = backendsUsed \cup {"In-Memory"}
            /\ IF ~found.given
               THEN /\ response' = notFoundResponse("export", documentId)
                    /\ UNCHANGED inMemoryDocuments
               ELSE LET entry == exportData(found.v, documentId, formatOf(f), now)
                        document == pushExport(found.v, entry)
                    IN  /\ inMemoryDocuments' =
                               replaceAt(inMemoryDocuments, documentId, document)
                        /\ response' = exportResponse(entry, document)
    /\ UNCHANGED << MONGODB_URI, connect, isMongoConnected, Document, documentCounter,
                    collection, objectIdCounter, now, uploads >>

\* Document.findById settles; the export is pushed on the fetched document and
\* document.save() is awaited
ExportFound(r) ==
    /\ r \in pending /\ r.kind = "export" /\ r.stage = "findById"
    /\ IF castFails(r.id)
       THEN /\ pending' = pending \ {r}
            /\ response' = castErrorResponse("export", r.id)
       ELSE LET found == findById(collection, r.id) IN
            IF ~found.given
            THEN /\ pending' = pending \ {r}
                 /\ response' = notFoundResponse("export", r.id)
            ELSE LET entry == exportData(found.v, r.id, r.format, now) IN
                 /\ pending' = (pending \ {r}) \cup
                        { [rid |-> r.rid, kind |-> "export", stage |-> "save",
                           id |-> r.id, entry |-> entry,
                           document |-> pushExport(found.v, entry)] }
                 /\ response' = NoResponse
    /\ upstreamRequest' = NoUpstreamRequest
    /\ aiOutcome' = NoOutcome
    /\ UNCHANGED << MONGODB_URI, connect, isMongoConnected, Document,
                    inMemoryDocuments, documentCounter, collection, objectIdCounter,
                    now, issued, uploads, backendsUsed >>

\* document.save() settles: the pushed entry is written with $push, which appends
\* it to the stored array
ExportSaved(r) ==
    /\ r \in pending /\ r.kind = "export" /\ r.stage = "save"
    /\ pending' = pending \ {r}
    /\ collection' = [i \in 1..Len(collection) |->
                        IF collection[i]._id = r.id
                        THEN pushExport(collection[i], r.entry)
                        ELSE collection[i]]
    /\ response' = exportResponse(r.entry, r.document)
    /\ upstreamRequest' = NoUpstreamRequest
    /\ aiOutcome' = NoOutcome
    /\ UNCHANGED << MONGODB_URI, connect, isMongoConnected, Document,
                    inMemoryDocuments, documentCounter, objectIdCounter, now, issued,
                    uploads, backendsUsed >>

-----------------------------------------------------------------------------
(* GET /api/docs/:id *)

getResponse(id, document) ==
    [kind |-> "get", status |-> 200, success |-> "true", id |-> id,
     document |-> document]

GetStart(id) ==
    /\ CanAccept
    /\ issued' = issued + 1
    /\ upstreamRequest' = NoUpstreamRequest
    /\ aiOutcome' = NoOutcome
    /\ IF useMongo
       THEN /\ pending' = pending \cup
                  { [rid |-> issued + 1, kind |-> "get", stage |-> "findById",
                     id |-> id] }
            /\ backendsUsed' = backendsUsed \cup {"MongoDB"}
            /\ response' = NoResponse
       ELSE LET found == findInMemory(inMemoryDocuments, id) IN
            /\ pending' = pending
            /\ backendsUsed' = backendsUsed \cup {"In-Memory"}
            /\ response' = IF found.given
                           THEN getResponse(id, found.v)
                           ELSE notFoundResponse("get", id)
    /\ UNCHANGED << MONGODB_URI, connect, isMongoConnected, Document,
                    inMemoryDocuments, documentCounter, collection, objectIdCounter,
                    now, uploads >>

GetFound(r) ==
    /\ r \in pending /\ r.kind = "get" /\ r.stage = "findById"
    /\ pending' = pending \ {r}
    /\ response' =
         IF castFails(r.id)
         THEN castErrorResponse("get", r.id)
         ELSE LET found == findById(collection, r.id) IN
              IF found.given
              THEN getResponse(r.id, found.v)
              ELSE notFoundResponse("get", r.id)
    /\ upstreamRequest' = NoUpstreamRequest
    /\ aiOutcome' = NoOutcome
    /\ UNCHANGED << MONGODB_URI, connect, isMongoConnected, Document,
                    inMemoryDocuments, documentCounter, collection, objectIdCounter,
                    now, issued, uploads, backendsUsed >>

-----------------------------------------------------------------------------
(* GET /api/docs *)

DefaultPage == 1
DefaultLimit == 12
MaxLimit == 2

pageOf(query) == IF query.page.given THEN query.page.v ELSE DefaultPage
limitOf(query) == IF query.limit.given THEN query.limit.v ELSE DefaultLimit
skipOf(query) == (pageOf(query) - 1) * limitOf(query)

Searches == { << "A", "B" >>, << "." >> }
Statuses == { "completed", "failed" }

QueryInputs ==
    { [page |-> None, limit |-> None, search |-> None, status |-> None] }
    \cup [page : {Some(n) : n \in 1..MaxPage}, limit : {Some(n) : n \in 1..MaxLimit},
          search : {None}, status : {None}]
    \cup [page : {None}, limit : {Some(1)},
          search : Opt(Searches), status : Opt(Statuses)]

\* the filter callback of the in-memory branch
matchesInMemory(doc, query) ==
    IF Truthy(query.search)
    THEN \/ includes(toLowerCase(doc.title), toLowerCase(query.search.v))
         \/ includes(toLowerCase(doc.description), toLowerCase(query.search.v))
    ELSE IF query.status.given /\ query.status.v # ""
    THEN doc.status = query.status.v
    ELSE TRUE

\* { $regex: pattern, $options: 'i' }: the pattern is a regular expression, of
\* which the model's patterns use literal characters and the wildcard "."
regexTest(pattern, text) ==
    \E k \in 0..(Len(text) - Len(pattern)) :
        \A i \in 1..Len(pattern) :
            \/ pattern[i] = "."
            \/ toLowerCaseChar(pattern[i]) = toLowerCaseChar(text[k + i])

\* the query object of the MongoDB branch
matchesQuery(doc, query) ==
    /\ Truthy(query.search) =>
          regexTest(query.search.v, doc.title) \/ regexTest(query.search.v, doc.description)
    /\ (query.status.given /\ query.status.v # "") => doc.status = query.status.v

Injections(n) == { f \in [1..n -> 1..n] : \A i, j \in 1..n : f[i] = f[j] => i = j }

\* the indices from i on at which keep holds, in ascending order
RECURSIVE selectIndices(_, _)
selectIndices(keep, i) ==
    IF i > Len(keep) THEN <<>>
    ELSE (IF keep[i] THEN << i >> ELSE <<>>) \o selectIndices(keep, i + 1)

\* Array.prototype.filter, keep[i] being the callback's result on docs[i]
filterDocs(docs, keep) ==
    LET idx == selectIndices(keep, 1) IN [i \in 1..Len(idx) |-> docs[idx[i]]]

\* Array.prototype.sort with (a, b) => b.createdAt - a.createdAt: the sort is
\* stable, documents created in the same millisecond keep their order
sortByCreatedAtDesc(docs) ==
    LET order == CHOOSE f \in Injections(Len(docs)) :
                    \A i, j \in 1..Len(docs) : i < j =>
                        \/ docs[f[i]].createdAt > docs[f[j]].createdAt
                        \/ docs[f[i]].createdAt = docs[f[j]].createdAt /\ f[i] < f[j]
    IN  [i \in 1..Len(docs) |-> docs[order[i]]]

\* .sort({ createdAt: -1 }): the database orders equal keys as it likes
sortedByDatabase(docs) ==
    { [i \in 1..Len(docs) |-> docs[f[i]]] :
        f \in { g \in Injections(Len(docs)) :
                  \A i, j \in 1..Len(docs) : i < j =>
                      docs[g[i]].createdAt >= docs[g[j]].createdAt } }

\* Array.prototype.slice(from, to) for 0 <= from <= to
slice(docs, from, to) ==
    SubSeq(docs, from + 1, IF to < Len(docs) THEN to ELSE Len(docs))

\* mutation: the quotient is rounded down
floorDiv(total, limit) == total \div limit

\* Math.ceil(total / limit) for limit >= 1
ceilDiv(total, limit) == (total + limit - 1) \div limit

listResponse(backend, query, documents, total, storedAtFind) ==
    [kind |-> "list", status |-> 200, success |-> "true", backend |-> backend,
     query |-> query,
     documents |-> documents,
     pagination |-> [currentPage |-> pageOf(query),
                     totalPages |-> ceilDiv(total, limitOf(query)),
                     totalDocuments |-> total,
                     hasNextPage |-> skipOf(query) + Len(documents) < total,
                     hasPrevPage |-> pageOf(query) > 1],
     storedAtFind |-> storedAtFind]

\* the in-memory branch: filter, sort, slice; the total is the length of the list
listInMemory(docs, query) ==
    LET keep == [i \in 1..Len(docs) |-> matchesInMemory(docs[i], query)]
        documents == slice(sortByCreatedAtDesc(filterDocs(docs, keep)),
                           skipOf(query), skipOf(query) + limitOf(query))
    IN  listResponse("In-Memory", query, documents, Len(docs), Len(docs))

ListStart(query) ==
    /\ CanAccept
    /\ issued' = issued + 1
    /\ upstreamRequest' = NoUpstreamRequest
    /\ aiOutcome' = NoOutcome
    /\ IF useMongo
       THEN /\ pending' = pending \cup
                  { [rid |-> issued + 1, kind |-> "list", stage |-> "find",
                     query |-> query] }
            /\ backendsUsed' = backendsUsed \cup {"MongoDB"}
            /\ response' = NoResponse
       ELSE /\ pending' = pending
            /\ backendsUsed' = backendsUsed \cup {"In-Memory"}
            /\ response' = listInMemory(inMemoryDocuments, query)
    /\ UNCHANGED << MONGODB_URI, connect, isMongoConnected, Document,
                    inMemoryDocuments, documentCounter, collection, objectIdCounter,
                    now, uploads >>

\* Document.find(query).sort().skip().limit() settles
ListFound(r) ==
    /\ r \in pending /\ r.kind = "list" /\ r.stage = "find"
    /\ LET keep == [i \in 1..Len(collection) |-> matchesQuery(collection[i], r.query)] IN
       \E sorted \in sortedByDatabase(filterDocs(collection, keep)) :
          pending' = (pending \ {r}) \cup
             { [rid |-> r.rid, kind |-> "list", stage |-> "countDocuments",
                query |-> r.query,
                documents |-> slice(sorted, skipOf(r.query),
                                    skipOf(r.query) + limitOf(r.query)),
                storedAtFind |-> Len(collection)] }
    /\ Quiet
    /\ UNCHANGED << MONGODB_URI, connect, isMongoConnected, Document,
                    inMemoryDocuments, documentCounter, collection, objectIdCounter,
                    now, issued, uploads, backendsUsed >>

\* Document.countDocuments(query) settles and the response is sent
ListCounted(r) ==
    /\ r \in pending /\ r.kind = "list" /\ r.stage = "countDocuments"
    /\ pending' = pending \ {r}
    /\ LET keep == [i \in 1..Len(collection) |-> matchesQuery(collection[i], r.query)] IN
       response' = listResponse("MongoDB", r.query, r.documents,
                                Len(filterDocs(collection, keep)), r.storedAtFind)
    /\ upstreamRequest' = NoUpstreamRequest
    /\ aiOutcome' = NoOutcome
    /\ UNCHANGED << MONGODB_URI, connect, isMongoConnected, Document,
                    inMemoryDocuments, documentCounter, collection, objectIdCounter,
                    now, issued, uploads, backendsUsed >>

-----------------------------------------------------------------------------

Next ==
    \/ ConnectResolved
    \/ ConnectRejected
    \/ Tick
    \/ \E repoData \in RepoDatas, options \in OptionsInputs : GenerateStart(repoData, options)
    \/ \E r \in pending, outcome \in Outcomes : GenerateSettled(r, outcome)
    \/ \E r \in pending : GenerateSaved(r)
    \/ \E id \in IdInputs, f \in FormatInputs : ExportStart(id, f)
    \/ \E r \in pending : ExportFound(r)
    \/ \E r \in pending : ExportSaved(r)
    \/ \E id \in IdInputs : GetStart(id)
    \/ \E r \in pending : GetFound(r)
    \/ \E query \in QueryInputs : ListStart(query)
    \/ \E r \in pending : ListFound(r)
    \/ \E r \in pending : ListCounted(r)

Spec == Init /\ [][Next]_vars

-----------------------------------------------------------------------------
(* generateDocumentation called on its own: the OpenRouterService of the server
   and the OpenRouterService of backend/services.  response holds what the
   caller gets back. *)

MaxTemperature == 10

CallModels ==
    { "openai/gpt-3.5-turbo", "google/gemini-pro", "anthropic/claude-3-haiku",
      "meta-llama/llama-3.1-8b-instruct", "anthropic/claude-3.5-sonnet",
      "not-a-real-model", "" }
CallOptions == [model : Opt(CallModels), temperature : Opt(0..MaxTemperature)]

serviceDefaultModel == "anthropic/claude-3.5-sonnet"

\* const { model = 'anthropic/claude-3.5-sonnet', temperature = 0.3 } = options:
\* a default applies only to an option that is undefined
serviceCompletionRequest(options) ==
    [sent |-> TRUE,
     model |-> IF options.model.given THEN options.model.v ELSE serviceDefaultModel,
     temperature |-> IF options.temperature.given THEN options.temperature.v
                     ELSE DefaultTemperature]

requestOf(variant, options) ==
    IF variant = "server" THEN completionRequest(options)
    ELSE serviceCompletionRequest(options)

\* what generateDocumentation returns or throws once the call has settled
resultOf(r, outcome) ==
    IF completionReturned(outcome)
    THEN [kind |-> "result", status |-> 0, variant |-> r.variant, ok |-> TRUE,
          content |-> outcome.content, error |-> "",
          upstream |-> [vendor |-> 0, code |-> ""]]
    ELSE IF r.variant = "server"
    THEN [kind |-> "result", status |-> 0, variant |-> r.variant, ok |-> FALSE,
          content |-> <<>>, error |-> generationError(outcome.error),
          upstream |-> [vendor |-> 0, code |-> ""]]
    ELSE \* `AI generation failed: ${upstream message}`
         [kind |-> "result", status |-> 0, variant |-> r.variant, ok |-> FALSE,
          content |-> <<>>, error |-> "AI generation failed: ",
          upstream |-> outcome.error]

CallGenerateDocumentation(variant, options) ==
    /\ pending = {}
    /\ pending' = { [rid |-> 0, kind |-> "call", stage |-> "completion",
                     variant |-> variant, options |-> options] }
    /\ upstreamRequest' = requestOf(variant, options)
    /\ aiOutcome' = NoOutcome
    /\ response' = NoResponse
    /\ UNCHANGED << MONGODB_URI, connect, isMongoConnected, Document,
                    inMemoryDocuments, documentCounter, collection, objectIdCounter,
                    now, issued, uploads, backendsUsed >>

CallSettled(r, outcome) ==
    /\ r \in pending /\ r.kind = "call"
    /\ pending' = pending \ {r}
    /\ upstreamRequest' = NoUpstreamRequest
    /\ aiOutcome' = outcome
    /\ response' = resultOf(r, outcome)
    /\ UNCHANGED << MONGODB_URI, connect, isMongoConnected, Document,
                    inMemoryDocuments, documentCounter, collection, objectIdCounter,
                    now, issued, uploads, backendsUsed >>

GenerationInit == Init /\ MONGODB_URI = FALSE

GenerationNext ==
    \/ \E options \in CallOptions : CallGenerateDocumentation("server", options)
    \/ \E options \in CallOptions : CallGenerateDocumentation("service", options)
    \/ \E r \in pending, outcome \in Outcomes : CallSettled(r, outcome)

GenerationSpec == GenerationInit /\ [][GenerationNext]_vars

-----------------------------------------------------------------------------
(* Repository analysis: analyzeRepository of the server behind
   POST /api/github/analyze ("server") and getRepositoryData of
   backend/services ("service").  A URL is the sequence of its "/" characters
   and of the maximal runs of other characters between them. *)

ValidUrl == << "https:", "/", "/", "github.com", "/", "octocat", "/", "Hello-World" >>
UrlInputs ==
    { Some(ValidUrl),
      Some(<< "github.com", "/", "octocat", "/", "Hello-World", "/", "tree", "/", "dev" >>),
      Some(<< "https:", "/", "/", "github.com", "/", "octocat" >>),
      Some(<< "https:", "/", "/", "gitlab.com", "/", "octocat", "/", "Hello-World" >>),
      Some(<< "github.com", "/", "/", "Hello-World" >>),
      Some(<<>>),
      None }

\* the run ends with github.com
EndsWithHost(run) == run \in { "github.com", "www.github.com" }

\* url.match(/github\.com\/([^\/]+)\/([^\/]+)/): the leftmost match
matchPositions(url) ==
    { i \in 1..(Len(url) - 4) :
        /\ EndsWithHost(url[i])
        /\ url[i + 1] = "/" /\ url[i + 2] # "/"
        /\ url[i + 3] = "/" /\ url[i + 4] # "/" }
urlMatch(url) ==
    IF matchPositions(url) = {} THEN None
    ELSE LET i == CHOOSE k \in matchPositions(url) : \A j \in matchPositions(url) : k <= j
         IN  Some([owner |-> url[i + 2], repo |-> url[i + 4]])

\* error.response?.status of a failed request; 0 when there is no response
UpstreamStatuses == { 404, 403, 401, 500, 0 }
Replies ==
    { [status |-> 200, parsable |-> TRUE, files |-> fs] : fs \in { <<>>, << "index.js" >> } }
    \cup { [status |-> 200, parsable |-> FALSE, files |-> <<>>] }
    \cup { [status |-> s, parsable |-> FALSE, files |-> <<>>] : s \in UpstreamStatuses }

\* the catch block of the server's analyzeRepository
analysisError(status) ==
    IF status = 404
    THEN "Repository not found. Please check the URL and ensure the repository is public."
    ELSE IF status = 403
    THEN "Rate limit exceeded. Please try again later or add a GitHub token."
    ELSE IF status = 401
    THEN "Authentication failed. Please check your GitHub token or try with a public repository."
    ELSE "Failed to analyze repository. Please check the URL and try again."

\* getRepoInfo throws one message whatever the status; getRepositoryData prefixes it
serviceAnalysisError(status) ==
    "Failed to fetch repository data: Failed to fetch repository information"

\* the message thrown when a request whose failure is fatal fails
errorOf(variant, status) ==
    IF variant = "server" THEN analysisError(status) ELSE serviceAnalysisError(status)

\* what the caller receives when the analysis fails: the server's handler
\* answers 500 with the message, the service throws it
analysisFailure(r, message, status, requests) ==
    [kind |-> "analysis", variant |-> r.variant, url |-> r.url,
     status |-> IF r.variant = "server" THEN 500 ELSE 0,
     success |-> "false", error |-> message, upstreamStatus |-> status,
     requests |-> requests, failed |-> {}]

analysisResult(r) ==
    [kind |-> "analysis", variant |-> r.variant, url |-> r.url,
     status |-> IF r.variant = "server" THEN 200 ELSE 0,
     success |-> "true", error |-> "", upstreamStatus |-> 200,
     requests |-> r.requests, failed |-> r.failed,
     data |-> [repoName |-> r.repoName, repoOwner |-> r.repoOwner,
               files |-> r.files, readme |-> r.readme, packageJson |-> r.packageJson]]

githubRequest(path) == [sent |-> TRUE, api |-> "github", path |-> path]

\* the replies a request of the given stage can get
StageReplies(stage) ==
    IF stage = "files" THEN { y \in Replies : y.status = 200 => y.parsable }
    ELSE IF stage = "package" THEN { y \in Replies : y.files = <<>> }
    ELSE { y \in Replies : y.files = <<>> /\ (y.status = 200 => y.parsable) }

nextStage(stage) ==
    IF stage = "repo" THEN "files" ELSE IF stage = "files" THEN "readme" ELSE "package"

\* the path of the request of a stage: the server lists /contents, the service
\* reads the git tree of the branch
pathOf(variant, stage) ==
    IF stage = "files" THEN (IF variant = "server" THEN "contents" ELSE "git/trees")
    ELSE stage

\* if (!urlMatch) throw; an undefined repoUrl throws a TypeError at .match
urlRejected(url) == ~url.given \/ ~urlMatch(url.v).given

\* what the caller receives for a URL that is rejected: the server's own catch
\* block replaces the message; the service prefixes it
invalidUrlError(variant, url) ==
    IF variant = "server" THEN analysisError(0)
    ELSE IF url.given THEN "Failed to fetch repository data: Invalid GitHub URL format"
    ELSE "Failed to fetch repository data: Cannot read properties of undefined (reading 'match')"

\* the call up to its first await
AnalyzeStart(variant, url) ==
    /\ pending = {}
    /\ LET call == [rid |-> 0, kind |-> "analyze", variant |-> variant, url |-> url,
                    stage |-> "repo", requests |-> 1, failed |-> {},
                    repoName |-> "", repoOwner |-> "", files |-> <<>>,
                    readme |-> None, packageJson |-> None]
       IN  IF urlRejected(url)
           THEN /\ pending' = pending
                /\ upstreamRequest' = NoUpstreamRequest
                /\ response' = analysisFailure(call, invalidUrlError(variant, url), 0, 0)
           ELSE /\ pending' = { call }
                /\ upstreamRequest' = githubRequest(pathOf(variant, "repo"))
                /\ response' = NoResponse
    /\ aiOutcome' = NoOutcome
    /\ UNCHANGED << MONGODB_URI, connect, isMongoConnected, Document,
                    inMemoryDocuments, documentCounter, collection, objectIdCounter,
                    now, issued, uploads, backendsUsed >>

\* mutation: a failed README request fails the analysis
readmeFailureFatal(variant, stage) ==
    stage \in {"repo", "readme"} \/ (stage = "files" /\ variant = "server")

\* the requests whose failure is not caught where they are made: the server
\* wraps only the README and package.json requests in a try of their own; the
\* service lets only getRepoInfo throw
failureFatal(variant, stage) ==
    stage = "repo" \/ (stage = "files" /\ variant = "server")

\* the fields a reply fills in
withReply(r, y) ==
    LET ok == y.status = 200 /\ y.parsable
        m == urlMatch(r.url.v).v
    IN  IF r.stage = "repo"
        THEN [r EXCEPT !.repoName = m.repo, !.repoOwner = m.owner]
        ELSE IF r.stage = "files"
        THEN [r EXCEPT !.files = IF ok THEN y.files ELSE <<>>,
                       !.failed = IF ok THEN @ ELSE @ \cup {"files"}]
        ELSE IF r.stage = "readme"
        THEN [r EXCEPT !.readme = IF ok THEN Some("# Hello")
                                  ELSE IF r.variant = "server" THEN Some("") ELSE None,
                       !.failed = IF ok THEN @ ELSE @ \cup {"readme"}]
        ELSE [r EXCEPT !.packageJson = IF ok THEN Some("hello-world") ELSE None,
                       !.failed = IF ok THEN @ ELSE @ \cup {"package"}]

\* a request settles and the call runs to its next await or to its end
AnalyzeReplied(r, y) ==
    /\ r \in pending /\ r.kind = "analyze"
    /\ y \in StageReplies(r.stage)
    /\ IF y.status # 200 /\ failureFatal(r.variant, r.stage)
       THEN /\ pending' = {}
            /\ upstreamRequest' = NoUpstreamRequest
            /\ response' = analysisFailure(r, errorOf(r.variant, y.status),
                                            y.status, r.requests)
       ELSE IF r.stage = "package"
       THEN /\ pending' = {}
            /\ upstreamRequest' = NoUpstreamRequest
            /\ response' = analysisResult(withReply(r, y))
       ELSE /\ pending' = { [withReply(r, y) EXCEPT !.stage = nextStage(r.stage),
                                                    !.requests = @ + 1] }
            /\ upstreamRequest' = githubRequest(pathOf(r.variant, nextStage(r.stage)))
            /\ response' = NoResponse
    /\ aiOutcome' = NoOutcome
    /\ UNCHANGED << MONGODB_URI, connect, isMongoConnected, Document,
                    inMemoryDocuments, documentCounter, collection, objectIdCounter,
                    now, issued, uploads, backendsUsed >>

AnalysisNext ==
    \/ \E url \in UrlInputs : AnalyzeStart("server", url)
    \/ \E url \in UrlInputs : AnalyzeStart("service", url)
    \/ \E r \in pending, y \in Replies : AnalyzeReplied(r, y)

AnalysisSpec == GenerationInit /\ [][AnalysisNext]_vars

-----------------------------------------------------------------------------
(* buildDocumentationPrompt: the prompt builder of the server ("server") and
   of backend/services ("service").  A prompt is the sequence of the pieces
   the code concatenates: literal texts, interpolated values and, for the
   README, its characters. *)

ReadmeLimit == 800
DependencyLimit == 10
KeyFileLimit == 8
maxFiles == 50

PromptMetadatas ==
    { [repoName |-> "Hello-World", repoOwner |-> "octocat", language |-> lf,
       framework |-> lf, fileCount |-> "2"] : lf \in Opt({"JavaScript"}) }
Readmes == { None, Some(<<>>), Some(<< "#", " ", "H", "i" >>) }
Manifests ==
    { None,
      Some([name |-> "hello-world", description |-> "says hello",
            scripts |-> None, dependencies |-> None]),
      Some([name |-> "hello-world", description |-> "says hello",
            scripts |-> Some(<< "start", "test" >>),
            dependencies |-> Some(<< "express" >>)]) }
FileLists ==
    { None, Some(<<>>),
      Some(<< [name |-> "index.js", size |-> 120] >>),
      Some(<< [name |-> "index.js", size |-> 120], [name |-> "LICENSE", size |-> 0] >>) }
AnalyzerOutputs ==
    [metadata : PromptMetadatas, readme : Readmes, packageJson : Manifests,
     files : FileLists]

\* `${value}` of a value that may be undefined
interpolate(o) == IF o.given THEN o.v ELSE "undefined"
\* value || fallback
orElse(o, fallback) == IF o.given /\ o.v # "" THEN o.v ELSE fallback

\* Array.prototype.slice(0, n) and String.prototype.substring(0, n)
firstN(seq, n) == SubSeq(seq, 1, IF Len(seq) < n THEN Len(seq) ELSE n)

\* Array.prototype.join: the pieces of the items with sep between two of them
RECURSIVE join(_, _)
join(items, sep) ==
    IF items = <<>> THEN <<>>
    ELSE IF Len(items) = 1 THEN items[1]
    ELSE items[1] \o << sep >> \o join(Tail(items), sep)

\* mutation: the README section is written whatever readme is
readmeGivenAlways(readme) == TRUE

\* if (readme): neither undefined, null nor ''
readmeGiven(readme) == readme.given /\ readme.v # <<>>

identityLine(variant, metadata) ==
    IF variant = "server"
    THEN << "Generate comprehensive documentation for: ", metadata.repoName, "\n\n" >>
    ELSE << "Generate comprehensive ", "professional",
            " documentation for this GitHub repository in ", "MARKDOWN",
            " format.\n\nRepository Information:\n- Name: ", metadata.repoName,
            "\n- Owner: ", metadata.repoOwner >>

instructionSuffix(variant) ==
    IF variant = "server"
    THEN << "Generate detailed documentation including:\n",
            "1. Project overview and purpose\n",
            "2. Installation and setup instructions\n",
            "3. Usage guide with examples\n",
            "4. Architecture and key components\n",
            "5. Development and contribution guidelines\n",
            "6. Deployment instructions\n",
            "7. Troubleshooting section\n\n",
            "Make it comprehensive, professional, and project-specific. Include code examples and configuration details. Format in Markdown." >>
    ELSE << "\n\nPlease create documentation that includes:\n\n",
            "1. **Project Overview**", "2. **Installation Guide**",
            "3. **Usage Guide**", "4. **API Documentation** (if applicable)",
            "5. **Development Guide**", "6. **Architecture Overview**",
            "7. **Troubleshooting**",
            "Please ensure the documentation is:", "MARKDOWN",
            " formatting\n\nGenerate the complete documentation now:" >>

readmeHeader(variant) == IF variant = "server" THEN "README:\n" ELSE "README Content:\n"
manifestHeader(variant) == IF variant = "server" THEN "Package Info:\n" ELSE "Package.json:\n"
fileEntryMark == "- "

\* filename.split('.').pop() looked up in languageMap, for the names of FileLists
detectLanguage(name) == IF name = "index.js" THEN "JavaScript" ELSE "Unknown"

\* formatFileStructure of the service
formatFileStructure(files) ==
    IF ~files.given \/ files.v = <<>> THEN << "No files available" >>
    ELSE LET shown == firstN(files.v, maxFiles) IN
         join([i \in 1..Len(shown) |->
                 << fileEntryMark, shown[i].name >>
                 \o (IF shown[i].size # 0 THEN << " (", "size", ")" >> ELSE <<>>)
                 \o << " [", detectLanguage(shown[i].name), "]" >>], "\n")

serverPrompt(d) ==
    identityLine("server", d.metadata)
    \o << "Project: ", d.metadata.repoOwner, "/", d.metadata.repoName, "\n",
          "Language: ", interpolate(d.metadata.language), "\n",
          "Framework: ", interpolate(d.metadata.framework), "\n",
          "Files: ", d.metadata.fileCount, "\n\n" >>
    \o (IF readmeGiven(d.readme)
        THEN << readmeHeader("server") >> \o firstN(d.readme.v, ReadmeLimit) \o << "\n\n" >>
        ELSE <<>>)
    \o (IF d.packageJson.given
        THEN << manifestHeader("server"), "Name: ", d.packageJson.v.name, "\n",
                "Description: ", d.packageJson.v.description, "\n" >>
             \o (IF d.packageJson.v.scripts.given
                 THEN << "Scripts: " >>
                      \o join([i \in 1..Len(d.packageJson.v.scripts.v) |->
                                 << d.packageJson.v.scripts.v[i] >>], ", ")
                      \o << "\n" >>
                 ELSE <<>>)
             \o (IF d.packageJson.v.dependencies.given
                 THEN LET deps == firstN(d.packageJson.v.dependencies.v, DependencyLimit) IN
                      << "Dependencies: " >>
                      \o join([i \in 1..Len(deps) |-> << deps[i] >>], ", ")
                      \o << "\n" >>
                 ELSE <<>>)
             \o << "\n" >>
        ELSE <<>>)
    \o (IF d.files.given /\ Len(d.files.v) > 0
        THEN LET shown == firstN(d.files.v, KeyFileLimit) IN
             << "Key Files:\n" >>
             \o join([i \in 1..Len(shown) |-> << fileEntryMark, shown[i].name >>], "\n")
             \o << "\n\n" >>
        ELSE <<>>)
    \o instructionSuffix("server")

servicePrompt(d) ==
    identityLine("service", d.metadata)
    \o << "\n- Language: ", orElse(d.metadata.language, "Unknown"),
          "\n- Framework: ", orElse(d.metadata.framework, "Unknown"),
          "\n- Total Files: ", d.metadata.fileCount,
          "\n- Total Lines: ", "0", "\n\n" >>
    \o (IF readmeGiven(d.readme)
        THEN << readmeHeader("service") >> \o d.readme.v \o << "\n" >>
        ELSE <<>>)
    \o << "\n" >>
    \o (IF d.packageJson.given
        THEN << manifestHeader("service"), "[object Object]", "\n" >>
        ELSE <<>>)
    \o << "\n\nKey Files Structure:\n" >>
    \o formatFileStructure(d.files)
    \o instructionSuffix("service")

\* what the builder returns, or that it threw: readme.substring and the
\* interpolation of the README need a string
promptResult(variant, d) ==
    IF readmeGiven(d.readme) /\ ~d.readme.given
    THEN [kind |-> "prompt", variant |-> variant, input |-> d, thrown |-> TRUE,
          prompt |-> <<>>]
    ELSE [kind |-> "prompt", variant |-> variant, input |-> d, thrown |-> FALSE,
          prompt |-> IF variant = "server" THEN serverPrompt(d) ELSE servicePrompt(d)]

BuildDocumentationPrompt(variant, d) ==
    /\ response' = promptResult(variant, d)
    /\ UNCHANGED << MONGODB_URI, connect, isMongoConnected, Document,
                    inMemoryDocuments, documentCounter, collection, objectIdCounter,
                    now, pending, issued, upstreamRequest, aiOutcome, uploads,
                    backendsUsed >>

PromptNext ==
    \/ \E d \in AnalyzerOutputs : BuildDocumentationPrompt("server", d)
    \/ \E d \in AnalyzerOutputs : BuildDocumentationPrompt("service", d)

PromptSpec == GenerationInit /\ [][PromptNext]_vars

-----------------------------------------------------------------------------
(* ExportService.markdownToDOCX.  The Markdown text is given by its lines
   (markdown.split('\n')), a line by its characters; an element of the
   document is a Paragraph with its options. *)

MaxLines == 3

hashes(n) == [i \in 1..n |-> "#"]
\* the backquote character, which a TLA+ string cannot hold, is written ^
Backquote == "^"
Fence == << Backquote, Backquote, Backquote >>
LineInputs ==
    { hashes(n) \o << " ", "T" >> : n \in 1..7 }
    \cup { <<>>, << " " >>, << "#", "T" >>, << ">", " ", "q" >>, << "a" >>,
           Fence, Fence \o << "j", "s" >> }
MarkdownInputs == UNION { [1..n -> LineInputs] : n \in 0..MaxLines }

\* String.prototype.substring(n): the string without its first n characters
substring(line, n) == SubSeq(line, n + 1, Len(line))

\* line.trim() === ''
trimsToEmpty(line) == \A i \in 1..Len(line) : line[i] \in { " ", "\t" }

\* codeBlockContent.join('\n')
RECURSIVE joinLines(_)
joinLines(ls) ==
    IF ls = <<>> THEN <<>>
    ELSE IF Len(ls) = 1 THEN ls[1]
    ELSE ls[1] \o << "\n" >> \o joinLines(Tail(ls))

heading(level, text) ==
    [text |-> Some(text), heading |-> level, indent |-> 0, font |-> ""]
blockquote(text) == [text |-> Some(text), heading |-> 0, indent |-> 720, font |-> ""]
emptyParagraph == [text |-> None, heading |-> 0, indent |-> 0, font |-> ""]
paragraph(text) == [text |-> Some(text), heading |-> 0, indent |-> 0, font |-> ""]
codeParagraph(text) ==
    [text |-> Some(text), heading |-> 0, indent |-> 0, font |-> "Courier New"]

\* mutation: a heading keeps its marker
headingTextWithMarker(line, level) == line

\* line.substring(level + 1) of a heading line
headingText(line, level) == substring(line, level + 1)

\* the element of a line outside a code block: the else-if chain
elementOf(line) ==
    IF \E n \in 1..6 : startsWith(line, hashes(n) \o << " " >>)
    THEN LET n == CHOOSE k \in 1..6 : startsWith(line, hashes(k) \o << " " >>)
         IN  heading(n, headingText(line, n))
    ELSE IF startsWith(line, << ">", " " >>) THEN blockquote(substring(line, 2))
    ELSE IF trimsToEmpty(line) THEN emptyParagraph
    ELSE paragraph(line)

\* the loop over the lines from line i on
RECURSIVE convertLines(_, _, _, _, _)
convertLines(lines, i, inCodeBlock, codeBlockContent, children) ==
    IF i > Len(lines)
    THEN [children |-> children, inCodeBlock |-> inCodeBlock,
          codeBlockContent |-> codeBlockContent]
    ELSE IF startsWith(lines[i], Fence)
    THEN IF inCodeBlock
         THEN convertLines(lines, i + 1, FALSE, <<>>,
                           Append(children, codeParagraph(joinLines(codeBlockContent))))
         ELSE convertLines(lines, i + 1, TRUE, codeBlockContent, children)
    ELSE IF inCodeBlock
    THEN convertLines(lines, i + 1, TRUE, Append(codeBlockContent, lines[i]), children)
    ELSE convertLines(lines, i + 1, FALSE, codeBlockContent,
                      Append(children, elementOf(lines[i])))

markdownToDOCX(lines) ==
    LET final == convertLines(lines, 1, FALSE, <<>>, <<>>)
    IN  [kind |-> "docx", input |-> lines, children |-> final.children,
         inCodeBlock |-> final.inCodeBlock,
         codeBlockContent |-> final.codeBlockContent]

\* a call of exportToDOCX is waiting with its content
DocxInit ==
    /\ MONGODB_URI = FALSE
    /\ connect = "none"
    /\ isMongoConnected = FALSE
    /\ Document = FALSE
    /\ inMemoryDocuments = <<>>
    /\ documentCounter = 1
    /\ collection = <<>>
    /\ objectIdCounter = 0
    /\ now = 0
    /\ pending \in { { [rid |-> 0, kind |-> "docx", lines |-> lines] } :
                        lines \in MarkdownInputs }
    /\ issued = 0
    /\ upstreamRequest = NoUpstreamRequest
    /\ aiOutcome = NoOutcome
    /\ uploads = {}
    /\ backendsUsed = {}
    /\ response = NoResponse

MarkdownToDOCX(r) ==
    /\ r \in pending /\ r.kind = "docx"
    /\ pending' = pending \ {r}
    /\ response' = markdownToDOCX(r.lines)
    /\ UNCHANGED << MONGODB_URI, connect, isMongoConnected, Document,
                    inMemoryDocuments, documentCounter, collection, objectIdCounter,
                    now, issued, upstreamRequest, aiOutcome, uploads, backendsUsed >>

DocxNext == \E r \in pending : MarkdownToDOCX(r)

DocxSpec == DocxInit /\ [][DocxNext]_vars

-----------------------------------------------------------------------------
(* getAvailableModels: the OpenRouterService of the server behind
   GET /api/ai/models ("server") and the OpenRouterService of backend/services
   ("service").  A model id is the sequence of the pieces it is made of, the
   substrings the filters look for being pieces. *)

MaxCatalog == 3
FreeTierLimit == 8
PopularLimit == 10

CatalogIds ==
    { << "google", "/", "gemini", "-pro" >>, << "openai", "/", "gpt", "-4" >>,
      << "anthropic", "/", "claude", "-3" >>, << "meta-", "llama", "/", "llama", "-3" >>,
      << "mistral", "ai", "/", "mistral", "-7b" >>, << "cohere", "/", "command" >>,
      << "google", "/", "gemini", "-flash-1.5" >> }

\* model.id as one string
RECURSIVE idText(_)
idText(id) == IF id = <<>> THEN "" ELSE Head(id) \o idText(Tail(id))
Catalogs == UNION { [1..n -> CatalogIds] : n \in 0..MaxCatalog }
\* the catalog request succeeds with a catalog, or fails
CatalogReplies == { [ok |-> TRUE, data |-> c] : c \in Catalogs }
                  \cup { [ok |-> FALSE, data |-> <<>>] }

fallbackModels ==
    << << "openai", "/", "gpt", "-3.5-turbo" >>, << "google", "/", "gemini", "-pro" >>,
       << "anthropic", "/", "claude", "-3-haiku" >>,
       << "meta-", "llama", "/", "llama", "-3.1-8b-instruct" >> >>

freeTierNames == { "deepseek", "gemini", "llama", "phi", "mistral" }
popularNames == { "claude", "gpt", "gemini" }

\* model.id.includes(a) || model.id.includes(b) || ...
includesAny(id, names) == \E name \in names : includes(id, << name >>)

filterIds(ids, names) ==
    filterDocs(ids, [i \in 1..Len(ids) |-> includesAny(ids[i], names)])

\* getAvailableModels of the server
availableModels(reply) ==
    IF reply.ok THEN firstN(filterIds(reply.data, freeTierNames), FreeTierLimit)
    ELSE fallbackModels

\* getAvailableModels of the service: the filtered catalog, or [] on failure
serviceAvailableModels(reply) ==
    IF reply.ok THEN filterIds(reply.data, popularNames) ELSE <<>>

\* the answer of GET /api/ai/models, and what the service's method returns
modelsResponse(variant, reply) ==
    [kind |-> "models", variant |-> variant, reply |-> reply,
     status |-> IF variant = "server" THEN 200 ELSE 0, success |-> "true",
     data |-> IF variant = "server"
              THEN firstN(filterIds(availableModels(reply), popularNames), PopularLimit)
              ELSE serviceAvailableModels(reply)]

ModelsStart(variant) ==
    /\ pending = {}
    /\ pending' = { [rid |-> 0, kind |-> "models", variant |-> variant] }
    /\ upstreamRequest' = [sent |-> TRUE, api |-> "openrouter", path |-> "models"]
    /\ aiOutcome' = NoOutcome
    /\ response' = NoResponse
    /\ UNCHANGED << MONGODB_URI, connect, isMongoConnected, Document,
                    inMemoryDocuments, documentCounter, collection, objectIdCounter,
                    now, issued, uploads, backendsUsed >>

ModelsReplied(r, reply) ==
    /\ r \in pending /\ r.kind = "models"
    /\ pending' = pending \ {r}
    /\ upstreamRequest' = NoUpstreamRequest
    /\ aiOutcome' = NoOutcome
    /\ response' = modelsResponse(r.variant, reply)
    /\ UNCHANGED << MONGODB_URI, connect, isMongoConnected, Document,
                    inMemoryDocuments, documentCounter, collection, objectIdCounter,
                    now, issued, uploads, backendsUsed >>

ModelsNext ==
    \/ ModelsStart("server")
    \/ ModelsStart("service")
    \/ \E r \in pending, reply \in CatalogReplies : ModelsReplied(r, reply)

ModelsSpec == GenerationInit /\ [][ModelsNext]_vars

-----------------------------------------------------------------------------
(* ExportService.cleanupOldFiles.  uploads holds the files of the upload
   directory with their modification times, in milliseconds; files written
   while a sweep runs get names the directory does not hold yet. *)

MaxFiles == 2
MaxSweepTicks == 1

\* 24 * 60 * 60 * 1000
maxAge == 86400000

\* the time the sweeps of the model start at
SweepTime == maxAge + 2
FileNames == { "doc-1.md", "doc-2.html", "doc-3.docx" }
ModificationTimes == { 0, 1, 2, 3, SweepTime }
Directories ==
    { files \in SUBSET [name : FileNames, mtime : ModificationTimes] :
        /\ Cardinality(files) <= MaxFiles
        /\ \A f, g \in files : f.name = g.name => f = g }

\* the document the files were exported from
exportedDocument ==
    LET document == withId(documentData([repoName |-> None, url |-> None],
                                        << "#", " ", "T" >>, 0), MemId(1))
    IN  pushExport(document, exportData(document, MemId(1), "markdown", 0))

CleanupInit ==
    /\ MONGODB_URI = FALSE
    /\ connect = "none"
    /\ isMongoConnected = FALSE
    /\ Document = FALSE
    /\ inMemoryDocuments = << exportedDocument >>
    /\ documentCounter = 2
    /\ collection = <<>>
    /\ objectIdCounter = 0
    /\ now = SweepTime
    /\ pending = {}
    /\ issued = 0
    /\ upstreamRequest = NoUpstreamRequest
    /\ aiOutcome = NoOutcome
    /\ uploads \in Directories
    /\ backendsUsed = {}
    /\ response = NoResponse

\* mutation: a file is removed from the age of 24 hours on
agedOutFromLimit(time, mtime) == time - mtime >= maxAge

\* now - stats.mtime.getTime() > maxAge
agedOut(time, mtime) == time - mtime > maxAge

\* await fs.readdir(this.uploadDir); const now = Date.now()
CleanupStart ==
    /\ pending = {}
    /\ response.kind # "cleanup"
    /\ pending' = { [rid |-> 0, kind |-> "cleanup", stage |-> "stat", now |-> now,
                     listed |-> uploads, files |-> { f.name : f \in uploads },
                     file |-> ""] }
    /\ response' = NoResponse
    /\ UNCHANGED << MONGODB_URI, connect, isMongoConnected, Document,
                    inMemoryDocuments, documentCounter, collection, objectIdCounter,
                    now, issued, upstreamRequest, aiOutcome, uploads, backendsUsed >>

\* await fs.stat(filePath) of the next file, or the end of the loop
CleanupStat(r) ==
    /\ r \in pending /\ r.kind = "cleanup" /\ r.stage = "stat"
    /\ IF r.files = {}
       THEN /\ pending' = {}
            /\ response' = [kind |-> "cleanup", status |-> 0, now |-> r.now,
                            listed |-> r.listed]
       ELSE \E name \in r.files :
               LET stats == CHOOSE f \in uploads : f.name = name IN
               /\ pending' = { [r EXCEPT !.files = @ \ {name},
                                        !.stage = IF agedOut(r.now, stats.mtime)
                                                  THEN "remove" ELSE "stat",
                                        !.file = name] }
               /\ response' = NoResponse
    /\ UNCHANGED << MONGODB_URI, connect, isMongoConnected, Document,
                    inMemoryDocuments, documentCounter, collection, objectIdCounter,
                    now, issued, upstreamRequest, aiOutcome, uploads, backendsUsed >>

\* await fs.remove(filePath)
CleanupRemove(r) ==
    /\ r \in pending /\ r.kind = "cleanup" /\ r.stage = "remove"
    /\ uploads' = { f \in uploads : f.name # r.file }
    /\ pending' = { [r EXCEPT !.stage = "stat"] }
    /\ response' = NoResponse
    /\ UNCHANGED << MONGODB_URI, connect, isMongoConnected, Document,
                    inMemoryDocuments, documentCounter, collection, objectIdCounter,
                    now, issued, upstreamRequest, aiOutcome, backendsUsed >>

\* the clock advances while the sweep is suspended
CleanupTick ==
    /\ pending # {}
    /\ now < SweepTime + MaxSweepTicks
    /\ now' = now + 1
    /\ response' = NoResponse
    /\ UNCHANGED << MONGODB_URI, connect, isMongoConnected, Document,
                    inMemoryDocuments, documentCounter, collection, objectIdCounter,
                    pending, issued, upstreamRequest, aiOutcome, uploads, backendsUsed >>

\* fs.writeFile of an export while the sweep is suspended
CleanupFileWritten(name) ==
    /\ pending # {}
    /\ \A f \in uploads : f.name # name
    /\ \A r \in pending : \A f \in r.listed : f.name # name
    /\ uploads' = uploads \cup { [name |-> name, mtime |-> now] }
    /\ response' = NoResponse
    /\ UNCHANGED << MONGODB_URI, connect, isMongoConnected, Document,
                    inMemoryDocuments, documentCounter, collection, objectIdCounter,
                    now, pending, issued, upstreamRequest, aiOutcome, backendsUsed >>

CleanupNext ==
    \/ CleanupStart
    \/ \E r \in pending : CleanupStat(r)
    \/ \E r \in pending : CleanupRemove(r)
    \/ CleanupTick
    \/ \E name \in FileNames : CleanupFileWritten(name)

CleanupSpec == CleanupInit /\ [][CleanupNext]_vars

-----------------------------------------------------------------------------
(* Language and framework detection: GitHubService.analyzeRepository of
   backend/services, and detectFramework and the language of the server.
   File names, indicators and framework names are sequences of characters;
   a manifest is given by the set of its dependency keys. *)

MaxListed == 3

ListedNames ==
    { << "a", ".", "p", "y" >>,
      << "b", ".", "j", "s" >>,
      << "a", "p", "p", ".", "j", "s" >>,
      << "A", "p", "p", ".", "v", "u", "e" >>,
      << "p", "a", "c", "k", "a", "g", "e", ".", "j", "s", "o", "n" >>,
      << "L", "I", "C", "E", "N", "S", "E" >> }
ListedFiles == UNION { [1..n -> ListedNames] : n \in 0..MaxListed }
\* repoData.language of the vendor: null or a language name
DeclaredLanguages == { None, Some("Go") }
\* packageJson: null, or the keys of dependencies and devDependencies
DependencyKeys ==
    { None, Some({}), Some({ "lodash" }), Some({ "express" }),
      Some({ "express", "vue" }) }

Unknown == << "U", "n", "k", "n", "o", "w", "n" >>

toUpperCaseChar(c) ==
    IF \E i \in 1..Len(LowerCase) : LowerCase[i] = c
    THEN UpperCase[CHOOSE i \in 1..Len(LowerCase) : LowerCase[i] = c]
    ELSE c

\* path.extname: from the last '.' on, '' when there is none or the name
\* starts with the only one
extname(name) ==
    LET dots == { i \in 1..Len(name) : name[i] = "." } IN
    IF dots = {} \/ dots = {1} THEN <<>>
    ELSE SubSeq(name, CHOOSE i \in dots : \A j \in dots : j <= i, Len(name))

\* the else-if chain on ext of the service
extensionLanguages ==
    << [language |-> "JavaScript", extensions |-> { << ".", "j", "s" >>, << ".", "j", "s", "x" >>, << ".", "t", "s" >>, << ".", "t", "s", "x" >> }],
       [language |-> "Python", extensions |-> { << ".", "p", "y" >> }],
       [language |-> "Java", extensions |-> { << ".", "j", "a", "v", "a" >> }],
       [language |-> "C++", extensions |-> { << ".", "c", "p", "p" >>, << ".", "c" >>, << ".", "h" >>, << ".", "h", "p", "p" >> }],
       [language |-> "PHP", extensions |-> { << ".", "p", "h", "p" >> }],
       [language |-> "Ruby", extensions |-> { << ".", "r", "b" >> }],
       [language |-> "Go", extensions |-> { << ".", "g", "o" >> }],
       [language |-> "Rust", extensions |-> { << ".", "r", "s" >> }],
       [language |-> "Swift", extensions |-> { << ".", "s", "w", "i", "f", "t" >> }],
       [language |-> "Kotlin", extensions |-> { << ".", "k", "t" >> }],
       [language |-> "Scala", extensions |-> { << ".", "s", "c", "a", "l", "a" >> }] >>

\* the language a file counts for, '' when its extension is not in the chain
languageOf(name) ==
    LET ext == toLowerCase(extname(name))
        hits == { i \in 1..Len(extensionLanguages) : ext \in extensionLanguages[i].extensions }
    IN  IF hits = {} THEN ""
        ELSE extensionLanguages[CHOOSE i \in hits : \A j \in hits : i <= j].language

frameworkIndicators ==
    << [framework |-> << "r", "e", "a", "c", "t" >>,
        indicators |-> << << "p", "a", "c", "k", "a", "g", "e", ".", "j", "s", "o", "n" >>,
                        << "j", "s", "x" >>,
                        << "t", "s", "x" >> >>],
       [framework |-> << "v", "u", "e" >>,
        indicators |-> << << "v", "u", "e", ".", "c", "o", "n", "f", "i", "g", ".", "j", "s" >>,
                        << ".", "v", "u", "e" >> >>],
       [framework |-> << "a", "n", "g", "u", "l", "a", "r" >>,
        indicators |-> << << "a", "n", "g", "u", "l", "a", "r", ".", "j", "s", "o", "n" >>,
                        << "n", "g", "-" >> >>],
       [framework |-> << "e", "x", "p", "r", "e", "s", "s" >>,
        indicators |-> << << "e", "x", "p", "r", "e", "s", "s" >>,
                        << "a", "p", "p", ".", "j", "s" >>,
                        << "s", "e", "r", "v", "e", "r", ".", "j", "s" >> >>],
       [framework |-> << "d", "j", "a", "n", "g", "o" >>,
        indicators |-> << << "m", "a", "n", "a", "g", "e", ".", "p", "y" >>,
                        << "s", "e", "t", "t", "i", "n", "g", "s", ".", "p", "y" >> >>],
       [framework |-> << "f", "l", "a", "s", "k" >>,
        indicators |-> << << "a", "p", "p", ".", "p", "y" >>,
                        << "f", "l", "a", "s", "k" >> >>],
       [framework |-> << "s", "p", "r", "i", "n", "g" >>,
        indicators |-> << << "p", "o", "m", ".", "x", "m", "l" >>,
                        << "b", "u", "i", "l", "d", ".", "g", "r", "a", "d", "l", "e" >> >>],
       [framework |-> << "l", "a", "r", "a", "v", "e", "l" >>,
        indicators |-> << << "a", "r", "t", "i", "s", "a", "n" >>,
                        << "c", "o", "m", "p", "o", "s", "e", "r", ".", "j", "s", "o", "n" >> >>],
       [framework |-> << "r", "a", "i", "l", "s" >>,
        indicators |-> << << "G", "e", "m", "f", "i", "l", "e" >>,
                        << "c", "o", "n", "f", "i", "g", ".", "r", "u" >> >>],
       [framework |-> << "n", "e", "x", "t" >>,
        indicators |-> << << "n", "e", "x", "t", ".", "c", "o", "n", "f", "i", "g", ".", "j", "s" >> >>],
       [framework |-> << "n", "u", "x", "t" >>,
        indicators |-> << << "n", "u", "x", "t", ".", "c", "o", "n", "f", "i", "g", ".", "j", "s" >> >>],
       [framework |-> << "g", "a", "t", "s", "b", "y" >>,
        indicators |-> << << "g", "a", "t", "s", "b", "y", "-", "c", "o", "n", "f", "i", "g", ".", "j", "s" >> >>],
       [framework |-> << "s", "v", "e", "l", "t", "e" >>,
        indicators |-> << << "s", "v", "e", "l", "t", "e", ".", "c", "o", "n", "f", "i", "g", ".", "j", "s" >> >>],
       [framework |-> << "a", "s", "t", "r", "o" >>,
        indicators |-> << << "a", "s", "t", "r", "o", ".", "c", "o", "n", "f", "i", "g", ".", "m", "j", "s" >> >>] >>

\* the checks of detectFramework of the server, in order
dependencyFrameworks ==
    << [key |-> "react", framework |-> << "R", "e", "a", "c", "t" >>],
       [key |-> "vue", framework |-> << "V", "u", "e", ".", "j", "s" >>],
       [key |-> "angular", framework |-> << "A", "n", "g", "u", "l", "a", "r" >>],
       [key |-> "express", framework |-> << "E", "x", "p", "r", "e", "s", "s", ".", "j", "s" >>],
       [key |-> "next", framework |-> << "N", "e", "x", "t", ".", "j", "s" >>],
       [key |-> "nuxt", framework |-> << "N", "u", "x", "t", ".", "j", "s" >>],
       [key |-> "gatsby", framework |-> << "G", "a", "t", "s", "b", "y" >>],
       [key |-> "django", framework |-> << "D", "j", "a", "n", "g", "o" >>],
       [key |-> "flask", framework |-> << "F", "l", "a", "s", "k" >>],
       [key |-> "fastapi", framework |-> << "F", "a", "s", "t", "A", "P", "I" >>],
       [key |-> "spring", framework |-> << "S", "p", "r", "i", "n", "g", " ", "B", "o", "o", "t" >>],
       [key |-> "laravel", framework |-> << "L", "a", "r", "a", "v", "e", "l" >>],
       [key |-> "symfony", framework |-> << "S", "y", "m", "f", "o", "n", "y" >>] >>

\* the languages of languageCounts in the order their keys were inserted
RECURSIVE countedLanguages(_)
countedLanguages(files) ==
    IF files = <<>> THEN <<>>
    ELSE LET before == countedLanguages(SubSeq(files, 1, Len(files) - 1))
             language == languageOf(files[Len(files)])
         IN  IF language = "" \/ \E i \in 1..Len(before) : before[i] = language
             THEN before
             ELSE Append(before, language)

\* Object.entries(languageCounts)
languageCounts(files) ==
    LET languages == countedLanguages(files) IN
    [i \in 1..Len(languages) |->
        [language |-> languages[i],
         count |-> Cardinality({ k \in 1..Len(files) : languageOf(files[k]) = languages[i] })]]

\* .sort(([,a], [,b]) => b - a): stable, equal counts keep their order
sortByCountDesc(entries) ==
    LET order == CHOOSE f \in Injections(Len(entries)) :
                    \A i, j \in 1..Len(entries) : i < j =>
                        \/ entries[f[i]].count > entries[f[j]].count
                        \/ entries[f[i]].count = entries[f[j]].count /\ f[i] < f[j]
    IN  [i \in 1..Len(entries) |-> entries[order[i]]]

\* the language of the service's analysis
serviceLanguage(files) ==
    IF languageCounts(files) = <<>> THEN "Unknown"
    ELSE sortByCountDesc(languageCounts(files))[1].language

\* indicators.some(indicator => fileName.includes(indicator))
indicates(entry, name) ==
    \E k \in 1..Len(entry.indicators) : includes(toLowerCase(name), entry.indicators[k])

\* framework.charAt(0).toUpperCase() + framework.slice(1)
capitalized(framework) == << toUpperCaseChar(framework[1]) >> \o Tail(framework)

\* analysis.framework after the loop over the files: every file with a
\* matching entry assigns it, from the first matching entry of the table
RECURSIVE serviceFramework(_)
serviceFramework(files) ==
    IF files = <<>> THEN Unknown
    ELSE LET before == serviceFramework(SubSeq(files, 1, Len(files) - 1))
             hits == { i \in 1..Len(frameworkIndicators) :
                         indicates(frameworkIndicators[i], files[Len(files)]) }
         IN  IF hits = {} THEN before
             ELSE capitalized(frameworkIndicators[CHOOSE i \in hits :
                                                    \A j \in hits : i <= j].framework)

\* repoData.language || 'Unknown'
serverLanguage(declared) == IF declared.given /\ declared.v # "" THEN declared.v ELSE "Unknown"

\* detectFramework of the server
detectFramework(packageJson, files) ==
    IF ~packageJson.given THEN Unknown
    ELSE LET hits == { i \in 1..Len(dependencyFrameworks) :
                         dependencyFrameworks[i].key \in packageJson.v }
         IN  IF hits = {} THEN Unknown
             ELSE dependencyFrameworks[CHOOSE i \in hits : \A j \in hits : i <= j].framework

detectionResult(r) ==
    [kind |-> "detection", variant |-> r.variant, declared |-> r.declared,
     files |-> r.files, packageJson |-> r.packageJson,
     language |-> IF r.variant = "server" THEN serverLanguage(r.declared)
                  ELSE serviceLanguage(r.files),
     framework |-> IF r.variant = "server" THEN detectFramework(r.packageJson, r.files)
                   ELSE serviceFramework(r.files)]

DetectionInit ==
    /\ MONGODB_URI = FALSE
    /\ connect = "none"
    /\ isMongoConnected = FALSE
    /\ Document = FALSE
    /\ inMemoryDocuments = <<>>
    /\ documentCounter = 1
    /\ collection = <<>>
    /\ objectIdCounter = 0
    /\ now = 0
    /\ pending \in { { [rid |-> 0, kind |-> "detection", variant |-> variant,
                        declared |-> declared, files |-> files,
                        packageJson |-> packageJson] } :
                        variant \in { "server", "service" },
                        declared \in DeclaredLanguages, files \in ListedFiles,
                        packageJson \in DependencyKeys }
    /\ issued = 0
    /\ upstreamRequest = NoUpstreamRequest
    /\ aiOutcome = NoOutcome
    /\ uploads = {}
    /\ backendsUsed = {}
    /\ response = NoResponse

\* the metadata the analyzer of either variant returns for a repository
DetectStructure(r, variant) ==
    /\ r \in pending /\ r.kind = "detection" /\ r.variant = variant
    /\ pending' = pending \ {r}
    /\ response' = detectionResult(r)
    /\ UNCHANGED << MONGODB_URI, connect, isMongoConnected, Document,
                    inMemoryDocuments, documentCounter, collection, objectIdCounter,
                    now, issued, upstreamRequest, aiOutcome, uploads, backendsUsed >>

DetectionNext ==
    \/ \E r \in pending : DetectStructure(r, "server")
    \/ \E r \in pending : DetectStructure(r, "service")

DetectionSpec == DetectionInit /\ [][DetectionNext]_vars

-----------------------------------------------------------------------------
(* The tags of the document POST /api/ai/generate creates *)

\* repoData.metadata.language and .framework of the request body
TagInputs == Opt({ "", "Unknown", "JavaScript", "Python", "Go", "React", "Express.js" })

\* [language, framework].filter(Boolean)
tags(language, framework) ==
    filterDocs(<< language, framework >>, << (language.given /\ language.v # ""), (framework.given /\ framework.v # "") >>)

TagsInit ==
    /\ MONGODB_URI = FALSE
    /\ connect = "none"
    /\ isMongoConnected = FALSE
    /\ Document = FALSE
    /\ inMemoryDocuments = <<>>
    /\ documentCounter = 1
    /\ collection = <<>>
    /\ objectIdCounter = 0
    /\ now = 0
    /\ pending \in { { [rid |-> 0, kind |-> "tags", language |-> language,
                        framework |-> framework] } :
                        language \in TagInputs, framework \in TagInputs }
    /\ issued = 0
    /\ upstreamRequest = NoUpstreamRequest
    /\ aiOutcome = NoOutcome
    /\ uploads = {}
    /\ backendsUsed = {}
    /\ response = NoResponse

\* the tags of documentData
CreateTags(r) ==
    /\ r \in pending /\ r.kind = "tags"
    /\ pending' = pending \ {r}
    /\ response' = [kind |-> "tags", language |-> r.language, framework |-> r.framework,
                    tags |-> tags(r.language, r.framework)]
    /\ UNCHANGED << MONGODB_URI, connect, isMongoConnected, Document,
                    inMemoryDocuments, documentCounter, collection, objectIdCounter,
                    now, issued, upstreamRequest, aiOutcome, uploads, backendsUsed >>

TagsNext == \E r \in pending : CreateTags(r)

TagsSpec == TagsInit /\ [][TagsNext]_vars

-----------------------------------------------------------------------------
(* Properties *)

Failed(outcome) == ~outcome.ok /\ outcome.error.code # "none"

storedDocuments == inMemoryDocuments \o collection
storedIds == { storedDocuments[i]._id : i \in 1..Len(storedDocuments) }
storedWithId(id) ==
    storedDocuments[CHOOSE i \in 1..Len(storedDocuments) : storedDocuments[i]._id = id]

\* C1: when the completion call of a generate request fails, the handler
\* answers with an error response and the step leaves the in-memory list, the
\* database collection and the id counter as they were.
C1_FailedGenerationStoresNothing ==
    [][ Failed(aiOutcome') =>
          /\ response'.kind = "generate"
          /\ response'.status >= 400
          /\ response'.success = "false"
          /\ inMemoryDocuments' = inMemoryDocuments
          /\ collection' = collection
          /\ documentCounter' = documentCounter ]_vars

\* a completion call has just failed while documents are stored
C1_Witness ==
    /\ Failed(aiOutcome)
    /\ response.status = 500
    /\ storedDocuments # <<>>

\* C2: every persisted document has a non-empty content and a non-empty githubUrl.
C2_PersistedContentAndUrlNonEmpty ==
    \A i \in 1..Len(storedDocuments) :
        /\ storedDocuments[i].content # <<>>
        /\ storedDocuments[i].githubUrl.given
        /\ storedDocuments[i].githubUrl.v # ""

\* what one step may do to the exports of the documents of one store: documents
\* stay in place, the document named by a successful export response gets that
\* response's entry appended, every other exports list is unchanged
ExportsStep(old, new, resp) ==
    /\ Len(new) >= Len(old)
    /\ \A i \in 1..Len(old) :
          /\ new[i]._id = old[i]._id
          /\ new[i].exports =
                IF resp.kind = "export" /\ resp.status = 200 /\ resp.id = old[i]._id
                THEN Append(old[i].exports, resp.export)
                ELSE old[i].exports
    /\ \A i \in (Len(old) + 1)..Len(new) : new[i].exports = <<>>

\* C3: exports lists only grow: a successful export appends exactly one entry at
\* the end of the exports of its document and leaves the earlier entries in
\* place; no other step changes any exports list.
C3_ExportsAppendOnly ==
    [][ /\ ExportsStep(inMemoryDocuments, inMemoryDocuments', response')
        /\ ExportsStep(collection, collection', response')
        /\ (response'.kind = "export" /\ response'.status = 200) =>
              response'.id \in storedIds ]_vars

\* the same document has just been exported a second time with the same format
C3_Witness ==
    /\ response.kind = "export" /\ response.status = 200
    /\ \E i \in 1..Len(storedDocuments) :
          /\ storedDocuments[i]._id = response.id
          /\ Len(storedDocuments[i].exports) = 2
          /\ storedDocuments[i].exports[1].format = storedDocuments[i].exports[2].format
          /\ storedDocuments[i].exports[2] = response.export

\* C4: an export request whose id names no stored document is answered 404,
\* creates no file and changes no exports list.
C4_ExportOfUnknownIdIsNotFound ==
    [][ (response'.kind = "export" /\ response'.id \notin storedIds) =>
          /\ response'.status = 404
          /\ uploads' = uploads
          /\ inMemoryDocuments' = inMemoryDocuments
          /\ collection' = collection ]_vars

\* C5: all operations of a process target the same backend.
C5_OneBackendForTheProcess == Cardinality(backendsUsed) <= 1

\* C6: the in-memory list holds the documents mem_1..mem_k in this order and the
\* counter is k+1; a step changes the length of the list only by a successful
\* in-memory generation, which appends exactly its one document.
C6_State ==
    /\ documentCounter = Len(inMemoryDocuments) + 1
    /\ \A i \in 1..Len(inMemoryDocuments) : inMemoryDocuments[i]._id = MemId(i)
    /\ \A i, j \in 1..Len(inMemoryDocuments) :
          inMemoryDocuments[i]._id = inMemoryDocuments[j]._id => i = j

C6_ConcurrentGenerationsGetDistinctIds ==
    /\ []C6_State
    /\ [][ IF /\ response'.kind = "generate" /\ response'.status = 200
              /\ response'.document._id.kind = "mem"
           THEN inMemoryDocuments' = Append(inMemoryDocuments, response'.document)
           ELSE Len(inMemoryDocuments') = Len(inMemoryDocuments) ]_vars

\* a generation has just stored the second document while another generation
\* is still waiting for its completion call
C6_Witness ==
    /\ response.kind = "generate" /\ response.status = 200
    /\ response.document._id = MemId(2)
    /\ \E r \in pending : r.kind = "generate" /\ r.stage = "completion"

\* C7: whatever options.model is, the completion request carries a model of the
\* allow-list: the requested model when the allow-list has it, else the default.
C7_RequestedModelOrDefault ==
    \A r \in pending :
        (r.kind = "call" /\ upstreamRequest.sent) =>
            /\ upstreamRequest.model \in reliableModels
            /\ upstreamRequest.model =
                  IF r.options.model.given /\ r.options.model.v \in reliableModels
                  THEN r.options.model.v
                  ELSE defaultModel

\* the number of documents the backend of a list response holds
storedIn(backend) ==
    IF backend = "In-Memory" THEN Len(inMemoryDocuments) ELSE Len(collection)

\* C8: a list response without filter over N stored documents (N documents are
\* stored at each read of the handler) with page size P has totalPages = ceil(N/P),
\* totalDocuments = N, hasPrevPage exactly on the pages after the first,
\* hasNextPage exactly on the pages before the last, and at most P documents.
C8_Pagination ==
    ( /\ response.kind = "list"
      /\ response.query.search = None /\ response.query.status = None
      /\ response.storedAtFind = storedIn(response.backend) ) =>
        LET N == storedIn(response.backend)
            P == limitOf(response.query)
            page == pageOf(response.query)
            pg == response.pagination
        IN  /\ pg.totalPages * P >= N
            /\ (pg.totalPages - 1) * P < N
            /\ pg.totalDocuments = N
            /\ pg.hasPrevPage <=> page > 1
            /\ pg.hasNextPage <=> page < pg.totalPages
            /\ Len(response.documents) <= P

\* the last of two pages has just been listed
C8_Witness ==
    /\ response.kind = "list"
    /\ response.query.search = None /\ response.query.status = None
    /\ response.pagination.totalPages = 2
    /\ response.pagination.currentPage = 2
    /\ response.pagination.hasPrevPage
    /\ ~response.pagination.hasNextPage
    /\ Len(response.documents) = 1

containsIgnoreCase(text, sub) == includes(toLowerCase(text), toLowerCase(sub))

\* C9: a list response holds only documents that satisfy every supplied filter
\* (search: title or description contains it, ignoring case; status: equal),
\* ordered by createdAt descending.
C9_ListedDocumentsSatisfyAllFilters ==
    response.kind = "list" =>
        LET docs == response.documents
            q == response.query
        IN  /\ \A i \in 1..Len(docs) :
                  /\ q.search.given =>
                        \/ containsIgnoreCase(docs[i].title, q.search.v)
                        \/ containsIgnoreCase(docs[i].description, q.search.v)
                  /\ q.status.given => docs[i].status = q.status.v
            /\ \A i, j \in 1..Len(docs) :
                  i < j => docs[i].createdAt >= docs[j].createdAt

\* C10: GET /api/docs/:id answers with the stored document for every id a
\* generation returned, and with 404 for an id that was never assigned.
C10_StoredDocumentsStayRetrievable ==
    response.kind = "get" =>
        IF response.id \in storedIds
        THEN /\ response.status = 200
             /\ response.document.content = storedWithId(response.id).content
             /\ response.document.metadata = storedWithId(response.id).metadata
        ELSE response.status = 404

-----------------------------------------------------------------------------
(* Properties of the repository analysis *)

\* the failure an upstream status stands for
failureType(status) ==
    IF status = 404 THEN "NotFound"
    ELSE IF status = 403 THEN "RateLimited"
    ELSE IF status = 401 THEN "AuthFailed"
    ELSE "UpstreamError"

\* C11: the analysis of a URL that matches the owner/repo pattern ends either
\* with a result whose repoName and repoOwner are non-empty and behind which no
\* request other than the README's or the manifest's failed, or with a failure
\* whose message is the one of the type of the upstream status and of no other type.
C11_ResultOrTypedFailure ==
    ( /\ response.kind = "analysis"
      /\ response.url.given /\ urlMatch(response.url.v).given ) =>
        IF response.success = "true"
        THEN /\ response.data.repoName # "" /\ response.data.repoOwner # ""
             /\ response.failed \subseteq {"readme", "package"}
        ELSE /\ response.error = errorOf(response.variant, response.upstreamStatus)
             /\ \A s \in UpstreamStatuses :
                   failureType(s) # failureType(response.upstreamStatus) =>
                       errorOf(response.variant, s) # response.error

\* C12: a string that does not match the owner/repo pattern fails the analysis
\* without any upstream request, with a message that is not the UpstreamError
\* message, and the analyze endpoint answers with a 4xx status.
C12_InvalidInputIsItsOwnFailure ==
    ( /\ response.kind = "analysis"
      /\ ~(response.url.given /\ urlMatch(response.url.v).given) ) =>
        /\ response.success = "false"
        /\ response.requests = 0
        /\ response.error # errorOf(response.variant, 500)
        /\ response.variant = "server" => response.status \in 400..499

C13_State ==
    ( response.kind = "analysis" /\ response.success = "true" ) =>
        /\ response.data.repoName # "" /\ response.data.repoOwner # ""
        /\ response.data.readme =
              IF "readme" \in response.failed
              THEN (IF response.variant = "server" THEN Some("") ELSE None)
              ELSE Some("# Hello")
        /\ response.data.packageJson.given <=> "package" \notin response.failed

\* C13: once the metadata request has succeeded, the step in which the README
\* request or the manifest request settles never ends the analysis with a
\* failure; the result has an empty or null readme exactly when the README
\* request failed, a null packageJson exactly when the manifest request failed
\* or the manifest did not parse, and repoName and repoOwner filled in.
C13_MissingReadmeOrManifestNotFatal ==
    /\ []C13_State
    /\ [][ \A r \in pending :
              ( r.kind = "analyze" /\ r.stage \in {"readme", "package"}
                /\ response'.kind = "analysis" ) =>
                  response'.success = "true" ]_vars

\* an analysis has just returned although both the README request and the
\* manifest request failed
C13_Witness ==
    /\ response.kind = "analysis" /\ response.success = "true"
    /\ response.failed = {"readme", "package"}
    /\ response.data.files # <<>>

-----------------------------------------------------------------------------
(* Properties of the completion call and of the error responses *)

\* the error a failure of the completion call stands for
completionFailureType(error) ==
    IF error.vendor = 402 THEN "QuotaExceeded"
    ELSE IF error.vendor = 408 \/ error.code = "ECONNABORTED" THEN "Timeout"
    ELSE IF error.vendor = 400 THEN "InvalidRequest"
    ELSE "GenerationFailed"

\* the message generateDocumentation of the variant throws for a failure
thrownFor(variant, error) ==
    resultOf([variant |-> variant], [ok |-> FALSE, content |-> <<>>, error |-> error]).error

\* C14: a failed completion call makes generateDocumentation throw the message
\* of the type of the failure, a message no failure of another type gets, and
\* nothing of the upstream error goes with it.
C14_FailuresMappedToFourMessages ==
    ( response.kind = "result" /\ ~response.ok ) =>
        /\ response.upstream = [vendor |-> 0, code |-> ""]
        /\ \A f \in Failures :
              completionFailureType(f) # completionFailureType(aiOutcome.error) =>
                  thrownFor(response.variant, f) # response.error
        /\ \A f \in Failures :
              completionFailureType(f) = completionFailureType(aiOutcome.error) =>
                  thrownFor(response.variant, f) = response.error

C16_ErrorResponsesShareOneShape ==
    ( response.kind \in {"generate", "export", "get", "list"} /\ response.status >= 400 ) =>
        /\ response.success = "false"
        /\ response.error # ""
        /\ response.status =
              IF response.kind \in {"export", "get"} /\ response.id \notin storedIds
              THEN 404 ELSE 500

-----------------------------------------------------------------------------
(* Properties of the prompt builder *)

occursIn(prompt, piece) == \E i \in 1..Len(prompt) : prompt[i] = piece
endsWith(prompt, pieces) ==
    /\ Len(prompt) >= Len(pieces)
    /\ SubSeq(prompt, Len(prompt) - Len(pieces) + 1, Len(prompt)) = pieces

\* C17: for an analyzer output with metadata the builder returns a prompt and
\* does not throw; the prompt begins with the identity line and ends with the
\* instruction suffix of the seven sections; it has a README section exactly
\* when readme is a non-empty string, a manifest section exactly when
\* packageJson is not null, and file entries exactly when files is non-empty.
C17_PromptOmitsAbsentSections ==
    response.kind = "prompt" =>
        LET d == response.input
            v == response.variant
            prompt == response.prompt
        IN  /\ ~response.thrown
            /\ startsWith(prompt, identityLine(v, d.metadata))
            /\ endsWith(prompt, instructionSuffix(v))
            /\ Len(prompt) >= Len(identityLine(v, d.metadata)) + Len(instructionSuffix(v))
            /\ occursIn(prompt, readmeHeader(v)) <=> (d.readme.given /\ d.readme.v # <<>>)
            /\ occursIn(prompt, manifestHeader(v)) <=> d.packageJson.given
            /\ occursIn(prompt, fileEntryMark) <=> (d.files.given /\ d.files.v # <<>>)

\* a prompt has just been built from an output without README, manifest and files
C17_Witness ==
    /\ response.kind = "prompt" /\ ~response.thrown
    /\ response.input.readme = None
    /\ response.input.packageJson = None
    /\ response.input.files \in { None, Some(<<>>) }
    /\ Len(response.prompt) > 0

-----------------------------------------------------------------------------
(* Properties of markdownToDOCX *)

fenceLines(lines) == { i \in 1..Len(lines) : startsWith(lines[i], Fence) }
fencesUpTo(lines, i) == Cardinality({ j \in fenceLines(lines) : j <= i })
\* the fence lines that close a block, and the line that opened it
closingFences(lines) == { i \in fenceLines(lines) : fencesUpTo(lines, i) % 2 = 0 }
openingOf(lines, i) == CHOOSE j \in fenceLines(lines) : j < i /\ fencesUpTo(lines, j) = fencesUpTo(lines, i) - 1
\* the lines outside every block, closed or left open
outsideLines(lines) ==
    { i \in 1..Len(lines) : i \notin fenceLines(lines) /\ fencesUpTo(lines, i) % 2 = 0 }

\* the lines that yield an element, and the k-th of them
yielding(lines) == outsideLines(lines) \cup closingFences(lines)
kth(S, k) == CHOOSE i \in S : Cardinality({ j \in S : j < i }) = k - 1

leadingHashes(line) ==
    IF \E n \in 1..Len(line) : line[n] # "#"
    THEN (CHOOSE n \in 1..Len(line) : line[n] # "#" /\ \A m \in 1..(n - 1) : line[m] = "#") - 1
    ELSE Len(line)
isHeadingLine(line) ==
    /\ leadingHashes(line) \in 1..6
    /\ Len(line) > leadingHashes(line) /\ line[leadingHashes(line) + 1] = " "
isQuoteLine(line) == Len(line) >= 2 /\ line[1] = ">" /\ line[2] = " "

\* the element the statement asks for of a line outside the blocks; quotes
\* tells whether a line starting with "> " is a kind of its own
expectedOutside(line, quotes) ==
    IF isHeadingLine(line)
    THEN [text |-> Some(SubSeq(line, leadingHashes(line) + 2, Len(line))),
          heading |-> leadingHashes(line), indent |-> 0, font |-> ""]
    ELSE IF quotes /\ isQuoteLine(line)
    THEN [text |-> Some(SubSeq(line, 3, Len(line))), heading |-> 0, indent |-> 720,
          font |-> ""]
    ELSE IF trimsToEmpty(line)
    THEN [text |-> None, heading |-> 0, indent |-> 0, font |-> ""]
    ELSE [text |-> Some(line), heading |-> 0, indent |-> 0, font |-> ""]

expectedElement(lines, i, quotes) ==
    IF i \in closingFences(lines)
    THEN [text |-> Some(joinLines(SubSeq(lines, openingOf(lines, i) + 1, i - 1))),
          heading |-> 0, indent |-> 0, font |-> "Courier New"]
    ELSE expectedOutside(lines[i], quotes)

LineByLine(quotes) ==
    response.kind = "docx" =>
        LET lines == response.input
            Y == yielding(lines)
        IN  /\ Len(response.children) = Cardinality(Y)
            /\ \A k \in 1..Cardinality(Y) :
                  response.children[k] = expectedElement(lines, kth(Y, k), quotes)

\* C18 as stated: outside the fenced blocks every line yields one element, in
\* order: a heading of level n without its marker for n in 1..6 hashes and a
\* space, an empty paragraph for a blank line, a plain paragraph with the line
\* unchanged for any other line; a fenced block yields one paragraph of its
\* lines joined by newlines.
C18_LineByLine == LineByLine(FALSE)

\* C18, amended: as stated, except that a line starting with "> " yields an
\* indented paragraph without that marker.
C18_LineByLineWithQuotes == LineByLine(TRUE)

\* a heading, then a fenced block holding a heading line
C18_Witness ==
    /\ response.kind = "docx"
    /\ Len(response.input) = 3 /\ Len(response.children) = 1
    /\ response.children[1].font = "Courier New"
    /\ response.children[1].text = Some(<< "#", " ", "T" >>)

-----------------------------------------------------------------------------
(* Properties of the export files and of the model list *)

\* the extension of the file an export of the format produces
extensionOf(format) ==
    IF format = "markdown" THEN "md" ELSE IF format = "pdf" THEN "html" ELSE format

\* C19: every entry of every exports list names a file of the uploads
\* directory that was written: the entry's url and filePath name it, its
\* extension is the one of the entry's format, the entry's size is the file's
\* size, and a markdown file holds the document's content.
C19_ExportEntriesNameWrittenFiles ==
    \A i \in 1..Len(storedDocuments) :
        \A k \in 1..Len(storedDocuments[i].exports) :
            LET entry == storedDocuments[i].exports[k] IN
            \E file \in uploads :
                /\ file.name = [id |-> entry.filePath.id, time |-> entry.filePath.time,
                                ext |-> entry.filePath.ext]
                /\ entry.url.id = entry.filePath.id /\ entry.url.time = entry.filePath.time
                /\ entry.url.ext = entry.filePath.ext
                /\ entry.filePath.ext = extensionOf(entry.format)
                /\ entry.size = file.size
                /\ entry.format = "markdown" => file.content = storedDocuments[i].content

seqToSet(seq) == { seq[i] : i \in 1..Len(seq) }

\* C20: listing the models always succeeds; when the catalog request fails the
\* list is non-empty and made of models of the hardcoded fallback list; when it
\* succeeds the list holds only catalog models whose id contains one of the
\* fixed substrings.
C20_ModelListNeverFails ==
    response.kind = "models" =>
        /\ response.success = "true"
        /\ IF response.reply.ok
           THEN \A i \in 1..Len(response.data) :
                   /\ response.data[i] \in seqToSet(response.reply.data)
                   /\ includesAny(response.data[i], freeTierNames \cup popularNames)
           ELSE /\ response.data # <<>>
                /\ seqToSet(response.data) \subseteq seqToSet(fallbackModels)

-----------------------------------------------------------------------------
(* Properties of the cleanup sweep *)

-----------------------------------------------------------------------------
(* Properties of the language and framework detection *)

\* the languages with the highest file count
mostCounted(files) ==
    { l \in seqToSet(countedLanguages(files)) :
        \A m \in seqToSet(countedLanguages(files)) :
            Cardinality({ k \in 1..Len(files) : languageOf(files[k]) = m })
              <= Cardinality({ k \in 1..Len(files) : languageOf(files[k]) = l }) }

firstEncounter(files, l) ==
    CHOOSE k \in 1..Len(files) :
        languageOf(files[k]) = l /\ \A j \in 1..(k - 1) : languageOf(files[j]) # l

\* C22: the language is the declared language when there is one; otherwise
\* the language with the highest file count, the first encountered among
\* equals; 'Unknown' only without a declared language and a known extension.
C22_DeclaredLanguageThenFileCount ==
    response.kind = "detection" =>
        IF response.declared.given /\ response.declared.v # ""
        THEN response.language = response.declared.v
        ELSE IF mostCounted(response.files) = {}
        THEN response.language = "Unknown"
        ELSE /\ response.language \in mostCounted(response.files)
             /\ \A l \in mostCounted(response.files) :
                   firstEncounter(response.files, response.language)
                     <= firstEncounter(response.files, l)

\* the first entry of the variant's table that matches, 'Unknown' without one
firstMatch(variant, files, packageJson) ==
    IF variant = "server"
    THEN LET hits == { i \in 1..Len(dependencyFrameworks) :
                         packageJson.given /\ dependencyFrameworks[i].key \in packageJson.v }
         IN  IF hits = {} THEN Unknown
             ELSE dependencyFrameworks[CHOOSE i \in hits : \A j \in hits : i <= j].framework
    ELSE LET hits == { i \in 1..Len(frameworkIndicators) :
                         \E k \in 1..Len(files) : indicates(frameworkIndicators[i], files[k]) }
         IN  IF hits = {} THEN Unknown
             ELSE capitalized(frameworkIndicators[CHOOSE i \in hits :
                                                    \A j \in hits : i <= j].framework)

-----------------------------------------------------------------------------
(* Properties of the tags *)

\* C24: the tags of a created document hold no value twice, whatever
\* metadata.language and metadata.framework are.
C24_TagsHoldNoDuplicate ==
    response.kind = "tags" =>
        \A i, j \in 1..Len(response.tags) :
            i # j => response.tags[i] # response.tags[j]

-----------------------------------------------------------------------------
(* Properties of the export entries *)

\* C25: the format of every entry of every stored document's exports list is
\* markdown, pdf or docx.
C25_ExportFormatsAreTheThreeKnown ==
    \A i \in 1..Len(storedDocuments) :
        \A k \in 1..Len(storedDocuments[i].exports) :
            storedDocuments[i].exports[k].format \in { "markdown", "pdf", "docx" }

-----------------------------------------------------------------------------
(* Properties of the list operation *)

\* the documents of the store a list response was computed from
listedStore == IF response.backend = "In-Memory" THEN inMemoryDocuments ELSE collection

\* the stored documents that match both filters of the query
matchingDocuments(docs, query) ==
    filterDocs(docs, [i \in 1..Len(docs) |-> matchesQuery(docs[i], query)])

\* C26: whichever store answers, a list response computed from an unchanged
\* store holds the page of the documents matching search and status, newest
\* first; totalDocuments and totalPages count the matching documents only,
\* and hasNextPage holds only if a later page has a matching document.
C26_BothStoresListAlike ==
    (response.kind = "list" /\ response.status = 200
       /\ response.storedAtFind = Len(listedStore)) =>
        LET matching == matchingDocuments(listedStore, response.query)
            skip == skipOf(response.query)
            limit == limitOf(response.query)
        IN  /\ \E sorted \in sortedByDatabase(matching) :
                  response.documents = slice(sorted, skip, skip + limit)
            /\ response.pagination.totalDocuments = Len(matching)
            /\ response.pagination.totalPages = ceilDiv(Len(matching), limit)
            /\ response.pagination.hasNextPage => skip + limit < Len(matching)

-----------------------------------------------------------------------------
(* Properties of the completion request *)

\* C27: the temperature of the completion request is options.temperature
\* whenever the caller gives one, for every tenth from 0 to 1, and the default
\* 0.3 only when the caller gives none.
C27_TemperatureAsSupplied ==
    \A r \in pending :
        (r.kind = "call" /\ upstreamRequest.sent) =>
            upstreamRequest.temperature =
                IF r.options.temperature.given THEN r.options.temperature.v
                ELSE DefaultTemperature

-----------------------------------------------------------------------------
(* Properties of the export descriptors *)

\* C28: any two export entries stored, in the same list or in the lists of two
\* documents, have different url values and different filePath values.
C28_ExportDescriptorsAreDistinct ==
    \A i, j \in 1..Len(storedDocuments) :
        \A k \in 1..Len(storedDocuments[i].exports) :
            \A l \in 1..Len(storedDocuments[j].exports) :
                << i, k >> # << j, l >> =>
                    /\ storedDocuments[i].exports[k].url # storedDocuments[j].exports[l].url
                    /\ storedDocuments[i].exports[k].filePath
                         # storedDocuments[j].exports[l].filePath

-----------------------------------------------------------------------------
(* Properties of the content the DOCX conversion keeps *)

textOf(element) == IF element.text.given THEN element.text.v ELSE <<>>

\* the text a line that is no fence has to leave in the document: the line
\* itself inside a block, the line without its marker outside
contentOf(lines, i) ==
    IF i \in outsideLines(lines) THEN textOf(elementOf(lines[i])) ELSE lines[i]

\* C29: the text of every input line that is no fence line occurs in the text
\* of some paragraph of the result, and no line is left in the code block
\* buffer when the conversion returns.
C29_NoContentLost ==
    response.kind = "docx" =>
        /\ \A i \in 1..Len(response.input) :
              i \notin fenceLines(response.input) =>
                  \E k \in 1..Len(response.children) :
                      includes(textOf(response.children[k]), contentOf(response.input, i))
        /\ Len(response.codeBlockContent) = 0

-----------------------------------------------------------------------------
(* Properties of the model list and the allow-list *)

\* C30: every model id in an answer of GET /api/ai/models is on the allow-list
\* of generateDocumentation, and a completion request for that id is sent with
\* that id.
C30_ListedModelsAreAccepted ==
    (response.kind = "models" /\ response.variant = "server") =>
        \A k \in 1..Len(response.data) :
            LET id == idText(response.data[k]) IN
            /\ id \in reliableModels
            /\ selectedModel([model |-> Some(id), temperature |-> None]) = id

====
